---- MODULE Spec2Model ----
(***************************************************************************)
(* Configuration resolution of the practices server: the deep-merge        *)
(* engine and the hierarchical loader (config/hierarchy.py), the loader    *)
(* (config/loader.py), the project-type detector (config/detector.py) and  *)
(* the validator (config/validator.py, config/schema.py).                  *)
(*                                                                         *)
(* Python dictionaries are mutable objects, so the merge engine is         *)
(* modelled over a heap: an address holds a dictionary, and a dictionary   *)
(* entry holds a scalar, a null, a list or a reference to another          *)
(* dictionary.  Value equality is equality of the dereferenced trees.      *)
(***************************************************************************)
EXTENDS Integers, Sequences, FiniteSets, TLC

VARIABLES
    heap,       \* address -> dictionary object (Python object store)
    heap0,      \* the heap as it was when merge_configs was called
    configs,    \* the list handed to merge_configs: a sequence of addresses
    result,     \* "none", or the address of the dictionary merge_configs returned
    dir,        \* the directory detect_project_type looks at
    detected,   \* what detect_project_type returned
    vinput,     \* the configuration handed to validate_config
    vresult,    \* what validate_config returned
    fs,         \* the configuration files on disk: path -> parsed content
    root,       \* the project root: its depth below the filesystem root
    found,      \* what find_hierarchical_configs returned
    loaded,     \* what load_hierarchical_config returned, or that it raised
    pconfig,    \* the ConfigurationSchema whose referenced files are checked
    proot,      \* the project root the paths are relative to
    disk,       \* the paths that exist under the project root
    presult,    \* what the file check, the validate tool or the verify script gave
    ufs0,       \* the files on disk before the first create_user_config
    uprev,      \* the files on disk before the last create_user_config
    ucalls,     \* the overrides of the create_user_config calls so far
    rlocal,     \* each concurrent create_user_config: where it is, its overrides, what it read
    rsteps,     \* the reads and writes of the concurrent calls, in the order they ran
    pc          \* which operation has run

mergeVars == <<heap, heap0, configs, result>>
detectVars == <<dir, detected>>
validateVars == <<vinput, vresult>>
hierVars == <<fs, root, found, loaded>>
pathVars == <<pconfig, proot, disk, presult>>
userVars == <<ufs0, uprev, ucalls>>
raceVars == <<rlocal, rsteps>>
vars == <<heap, heap0, configs, result, dir, detected, vinput, vresult,
          fs, root, found, loaded, pconfig, proot, disk, presult,
          ufs0, uprev, ucalls,
          rlocal, rsteps,
          pc>>

\* a value for the variables of a component that a specification does not use
Unused == "unused"
MergeUnused == heap = Unused /\ heap0 = Unused /\ configs = Unused /\ result = Unused
DetectUnused == dir = Unused /\ detected = Unused
ValidateUnused == vinput = Unused /\ vresult = Unused
HierUnused == fs = Unused /\ root = Unused /\ found = Unused /\ loaded = Unused
PathUnused == pconfig = Unused /\ proot = Unused /\ disk = Unused /\ presult = Unused
UserUnused == ufs0 = Unused /\ uprev = Unused /\ ucalls = Unused
RaceUnused == rlocal = Unused /\ rsteps = Unused

(***************************************************************************)
(* Values                                                                  *)
(***************************************************************************)
S(x) == [t |-> "s", v |-> x]          \* a scalar
Null == [t |-> "n", v |-> "null"]     \* None
L(x) == [t |-> "l", v |-> x]          \* a list (never mutated by the merge)
M(f) == [t |-> "m", v |-> f]          \* a mapping, as a tree value
R(a) == [t |-> "r", v |-> a]          \* a reference to a dictionary object

EmptyDict == [k \in {} |-> Null]

\* d with d[k] = x (Python: d[k] = x)
Put(d, k, x) == [j \in DOMAIN d \cup {k} |-> IF j = k THEN x ELSE d[j]]

IsDict(h, x) == x.t = "r"

(***************************************************************************)
(* Heap allocation of a tree value and its inverse                         *)
(***************************************************************************)
ChildAddr(a, k) == <<a[1], Append(a[2], k)>>

RECURSIVE AllocAt(_, _), AllocKeys(_, _, _)
AllocAt(a, f) ==
    (a :> [k \in DOMAIN f |-> IF f[k].t = "m" THEN R(ChildAddr(a, k)) ELSE f[k]])
        @@ AllocKeys(a, f, DOMAIN f)

AllocKeys(a, f, ks) ==
    IF ks = {} THEN EmptyDict
    ELSE LET k == CHOOSE x \in ks : TRUE
         IN (IF f[k].t = "m" THEN AllocAt(ChildAddr(a, k), f[k].v) ELSE EmptyDict)
                @@ AllocKeys(a, f, ks \ {k})

RECURSIVE AllocAll(_, _)
\* the objects of trees[i..]: tree number i lives at address <<i, <<>>>>
AllocAll(trees, i) ==
    IF i > Len(trees) THEN EmptyDict
    ELSE AllocAt(<<i, <<>>>>, trees[i]) @@ AllocAll(trees, i + 1)

RECURSIVE Deref(_, _)
\* the tree value of the dictionary at address a
Deref(h, a) ==
    [k \in DOMAIN h[a] |->
        IF h[a][k].t = "r" THEN M(Deref(h, h[a][k].v)) ELSE h[a][k]]

(***************************************************************************)
(* The deep-merge engine                                                   *)
(***************************************************************************)
ResultAddr == <<0, <<>>>>

\* a merge that only overwrites keys the base already has (new keys are lost)
AssignExistingOnly(h, base, key, value) ==
    IF key \in DOMAIN h[base] THEN [h EXCEPT ![base] = Put(@, key, value)] ELSE h

\* a merge that appends an incoming list to an existing list
AssignAppendLists(h, base, key, value) ==
    IF key \in DOMAIN h[base] /\ h[base][key].t = "l" /\ value.t = "l"
    THEN [h EXCEPT ![base] = Put(@, key, L(h[base][key].v \o value.v))]
    ELSE [h EXCEPT ![base] = Put(@, key, value)]

\* the else branch of _merge_dicts: base[key] = value
Assign(h, base, key, value) == [h EXCEPT ![base] = Put(@, key, value)]

RECURSIVE _merge_dicts(_, _, _), MergeItems(_, _, _, _)
\* for key, value in overlay.items(): ... ; values are read live from the heap
MergeItems(h, base, overlay, ks) ==
    IF ks = {} THEN h
    ELSE LET key == CHOOSE x \in ks : TRUE
             value == h[overlay][key]
             h2 == IF /\ key \in DOMAIN h[base]
                      /\ IsDict(h, h[base][key])
                      /\ IsDict(h, value)
                   THEN _merge_dicts(h, h[base][key].v, value.v)
                   ELSE Assign(h, base, key, value)
         IN MergeItems(h2, base, overlay, ks \ {key})

_merge_dicts(h, base, overlay) == MergeItems(h, base, overlay, DOMAIN h[overlay])

\* a merge that starts from an empty dictionary and forgets element 0
ShallowCopyEmpty(h, a) == EmptyDict

\* result = configs[0].copy(): a new dictionary object with the same entries
ShallowCopy(h, a) == h[a]

RECURSIVE MergeRest(_, _)
MergeRest(h, cs) ==
    IF cs = <<>> THEN h
    ELSE MergeRest(_merge_dicts(h, ResultAddr, Head(cs)), Tail(cs))

\* the heap after merge_configs(cs); the returned dictionary is at ResultAddr
merge_configs(h, cs) ==
    IF cs = <<>> THEN (ResultAddr :> EmptyDict) @@ h
    ELSE MergeRest((ResultAddr :> ShallowCopy(h, cs[1])) @@ h, Tail(cs))

\* merge_configs on values: fresh objects for every element, the merged tree
MergeValues(trees) ==
    Deref(merge_configs(AllocAll(trees, 1), [i \in 1..Len(trees) |-> <<i, <<>>>>]),
          ResultAddr)

(***************************************************************************)
(* Inputs of the merge engine                                              *)
(***************************************************************************)
MaxConfigs == 3     \* longest list handed to merge_configs

\* mappings found under branches.<type>
BranchTypeMaps ==
    { ("base" :> S("develop")),
      ("base" :> S("main")) @@ ("target" :> L(<<"main", "develop">>)),
      ("target" :> L(<<"main">>)) }

\* mappings found under branches
BranchesMaps ==
    { ("feature" :> M(d)) : d \in BranchTypeMaps }
        \cup { ("feature" :> Null),
               ("bugfix" :> M(("base" :> S("develop")))),
               ("feature" :> M(("base" :> S("develop")))) @@ ("bugfix" :> S("x")) }

Absent == [t |-> "absent", v |-> "absent"]

\* a mapping from a choice per key, Absent meaning the key is not there
Mapping(choice) ==
    [k \in {j \in DOMAIN choice : choice[j] # Absent} |-> choice[k]]

MergeInputs ==
    { Mapping(c) :
        c \in [main_branch : {Absent, S("trunk")},
               branches : {Absent, L(<<"main">>)} \cup {M(b) : b \in BranchesMaps}] }

\* which object stands at which position of the list: every way of repeating
\* objects in a list of m positions over n objects (first uses in order)
Positions(m, n) ==
    { idx \in [1..m -> 1..n] :
        /\ \A o \in 1..n : \E i \in 1..m : idx[i] = o
        /\ \A i \in 1..m : \A o \in 1..(idx[i] - 1) : \E j \in 1..(i - 1) : idx[j] = o }

(***************************************************************************)
(* The merge engine as a state machine                                     *)
(***************************************************************************)
InitMerge ==
    /\ \E m \in 0..MaxConfigs : \E n \in 0..m :
         \E trees \in [1..n -> MergeInputs] : \E idx \in Positions(m, n) :
            /\ heap = AllocAll(trees, 1)
            /\ configs = [i \in 1..m |-> <<idx[i], <<>>>>]
    /\ heap0 = heap
    /\ result = "none"
    /\ pc = "start"
    /\ DetectUnused /\ ValidateUnused /\ HierUnused /\ PathUnused /\ UserUnused /\ RaceUnused

\* merged = merge_configs(configs)
MergeConfigs ==
    /\ pc = "start"
    /\ heap0' = heap
    /\ heap' = merge_configs(heap, configs)
    /\ result' = ResultAddr
    /\ pc' = "merged"
    /\ UNCHANGED <<configs, detectVars, validateVars, hierVars, pathVars, userVars, raceVars>>

NextMerge == MergeConfigs

SpecMerge == InitMerge /\ [][NextMerge]_vars

(***************************************************************************)
(* Properties of the merge engine                                          *)
(***************************************************************************)
\* the elements of the list as values, before and after the call
InputBefore(i) == Deref(heap0, configs[i])
InputAfter(i) == Deref(heap, configs[i])
Merged == Deref(heap, result)

\* C2: merge_configs never mutates its inputs: after the call every element of
\* the list is value-equal, at every depth, to what it was before the call.
C2_InputsNeverMutated ==
    pc = "merged" => \A i \in 1..Len(configs) : InputAfter(i) = InputBefore(i)

RECURSIVE KeysAreUnion(_, _)
\* r has the keys of all of ins; where every element that has key k holds a
\* mapping there, r holds a mapping there, and the same is true of it
KeysAreUnion(r, ins) ==
    /\ DOMAIN r = UNION {DOMAIN ins[i] : i \in 1..Len(ins)}
    /\ \A k \in DOMAIN r :
         LET hs == SelectSeq(ins, LAMBDA c : k \in DOMAIN c)
         IN (Len(hs) >= 2 /\ \A i \in 1..Len(hs) : hs[i][k].t = "m")
               => /\ r[k].t = "m"
                  /\ KeysAreUnion(r[k].v, [i \in 1..Len(hs) |-> hs[i][k].v])

\* C7: the key set of merge_configs(L) is the union of the key sets of the
\* elements of L, and a key that holds a mapping in every element that has it
\* merges to a mapping whose key set is again the union, at every depth.
C7_KeysAreUnion ==
    (pc = "merged" /\ configs # <<>>)
        => KeysAreUnion(Merged, [i \in 1..Len(configs) |-> InputBefore(i)])

\* two elements hold mappings with different key sets under branches, and only
\* one of them has main_branch
C7_Witness ==
    /\ pc = "merged" /\ Len(configs) = 2
    /\ "branches" \in DOMAIN InputBefore(1) /\ "branches" \in DOMAIN InputBefore(2)
    /\ InputBefore(1)["branches"].t = "m" /\ InputBefore(2)["branches"].t = "m"
    /\ DOMAIN InputBefore(1)["branches"].v = {"feature"}
    /\ DOMAIN InputBefore(2)["branches"].v = {"bugfix"}
    /\ "main_branch" \in DOMAIN InputBefore(2) \ DOMAIN InputBefore(1)
    /\ DOMAIN Merged = {"main_branch", "branches"}
    /\ DOMAIN Merged["branches"].v = {"feature", "bugfix"}

\* C8: merge_configs([a]) is value-equal to a, and so is merge_configs([a, a]).
C8_IdentityAndIdempotence ==
    (/\ pc = "merged"
     /\ Len(configs) \in {1, 2}
     /\ \A i \in 1..Len(configs) : InputBefore(i) = InputBefore(1))
        => Merged = InputBefore(1)

\* merge_configs([a, a]) with one object a that holds a nested mapping and a list
C8_Witness ==
    /\ pc = "merged" /\ Len(configs) = 2 /\ configs[1] = configs[2]
    /\ "branches" \in DOMAIN InputBefore(1)
    /\ InputBefore(1)["branches"].t = "m"
    /\ "feature" \in DOMAIN InputBefore(1)["branches"].v
    /\ InputBefore(1)["branches"].v["feature"].t = "m"
    /\ "target" \in DOMAIN InputBefore(1)["branches"].v["feature"].v
    /\ Merged = InputBefore(1)

\* the heap after the first i elements of the list have been merged
HeapAfter(i) == merge_configs(heap0, SubSeq(configs, 1, i))

RECURSIVE StepReplaces(_, _, _)
\* one merge step: under every key of the incoming mapping the result holds the
\* incoming value, unless both sides hold a mapping, which merge key by key
StepReplaces(acc, inc, res) ==
    \A k \in DOMAIN inc :
        /\ k \in DOMAIN res
        /\ IF k \in DOMAIN acc /\ acc[k].t = "m" /\ inc[k].t = "m"
           THEN res[k].t = "m" /\ StepReplaces(acc[k].v, inc[k].v, res[k].v)
           ELSE res[k] = inc[k]

\* C9: whenever the accumulator's value and the incoming value for a key are
\* not both mappings, the incoming value replaces the accumulator's value: a
\* list replaces a list wholesale, and a null replaces a value.
C9_IncomingReplaces ==
    pc = "merged" =>
        /\ \A i \in 2..Len(configs) :
              StepReplaces(Deref(HeapAfter(i - 1), ResultAddr),
                           Deref(HeapAfter(i - 1), configs[i]),
                           Deref(HeapAfter(i), ResultAddr))
        /\ heap = HeapAfter(Len(configs))

\* a list met a different list, and a mapping met a null
C9_Witness ==
    /\ pc = "merged" /\ Len(configs) = 3
    /\ "branches" \in DOMAIN InputBefore(1) /\ "branches" \in DOMAIN InputBefore(2)
    /\ "branches" \in DOMAIN InputBefore(3)
    /\ InputBefore(1)["branches"] =
           M(("feature" :> M(("base" :> S("main")) @@ ("target" :> L(<<"main", "develop">>)))))
    /\ InputBefore(2)["branches"] = M(("feature" :> M(("target" :> L(<<"main">>)))))
    /\ InputBefore(3)["branches"] = M(("feature" :> Null))
    /\ Deref(HeapAfter(2), ResultAddr)["branches"].v["feature"].v["target"] = L(<<"main">>)
    /\ Merged["branches"].v["feature"] = Null

(***************************************************************************)
(* The project-type detector                                               *)
(***************************************************************************)
ProjectTypes ==
    <<"python", "javascript", "typescript", "java", "csharp", "go", "rust", "generic">>

FileInd(f) == [kind |-> "file", dir |-> "", file |-> f, ext |-> "", min_count |-> 0]
DirFileInd(d, f) == [kind |-> "dirfile", dir |-> d, file |-> f, ext |-> "", min_count |-> 0]
DirInd(d) == [kind |-> "dir", dir |-> d, file |-> "", ext |-> "", min_count |-> 0]
ExtInd(e, n) == [kind |-> "ext", dir |-> "", file |-> "", ext |-> e, min_count |-> n]

PROJECT_TYPE_INDICATORS ==
    [python |-> <<FileInd("pyproject.toml"), FileInd("setup.py"),
                  FileInd("requirements.txt"), DirFileInd("src", "__init__.py"),
                  ExtInd(".py", 3)>>,
     javascript |-> <<FileInd("package.json"), FileInd("node_modules"),
                      ExtInd(".js", 3), ExtInd(".jsx", 1)>>,
     typescript |-> <<FileInd("tsconfig.json"), ExtInd(".ts", 3), ExtInd(".tsx", 1)>>,
     java |-> <<FileInd("pom.xml"), FileInd("build.gradle"), DirInd("src/main/java"),
                ExtInd(".java", 3)>>,
     csharp |-> <<FileInd(".sln"), ExtInd(".csproj", 1), ExtInd(".cs", 3)>>,
     go |-> <<FileInd("go.mod"), FileInd("go.sum"), ExtInd(".go", 3)>>,
     rust |-> <<FileInd("Cargo.toml"), FileInd("Cargo.lock"), ExtInd(".rs", 3)>>,
     generic |-> <<>>]

\* the paths the file indicators name, and the extensions that are counted
IndicatorFiles ==
    {"pyproject.toml", "setup.py", "requirements.txt", "src/__init__.py",
     "package.json", "node_modules", "tsconfig.json", "pom.xml", "build.gradle",
     ".sln", "go.mod", "go.sum", "Cargo.toml", "Cargo.lock"}

Extensions == {".py", ".js", ".jsx", ".ts", ".tsx", ".java", ".csproj", ".cs", ".go", ".rs"}

\* the indicator files whose own name ends with the extension
EndsWith(ext) == IF ext = ".py" THEN {"setup.py", "src/__init__.py"} ELSE {}

\* indicator.get("weight", 1), the weight counted into max_possible_scores
DefaultIndicatorWeight == 1
\* indicator.get("weight", 2), the weight of a file that is there
DefaultMatchWeight == 2
\* indicator.get("max_count", 100)
DefaultMaxCount == 100
\* indicator.get("max_weight", 3)
DefaultMaxWeight == 3

Min(a, b) == IF a <= b THEN a ELSE b

\* Scores are kept in half points, because weight_per_file is 0.5: a raw score
\* of r half points over a maximum of m points is the fraction r / (2 * m).

\* os.walk over the directory, counting names that end with ext, up to max_count
CountFiles(d, ext) ==
    Min(d.sources[ext] + Cardinality(d.files \cap EndsWith(ext)), DefaultMaxCount)

\* what one indicator adds to raw_scores, in half points
IndicatorScore(d, ind) ==
    IF ind.kind = "dirfile"
    THEN IF (ind.dir \o "/" \o ind.file) \in d.files THEN 2 * DefaultMatchWeight ELSE 0
    ELSE IF ind.kind = "file"
    THEN IF ind.file \in d.files THEN 2 * DefaultMatchWeight ELSE 0
    ELSE IF ind.kind = "ext"
    THEN IF CountFiles(d, ind.ext) >= ind.min_count
         THEN Min(CountFiles(d, ind.ext), 2 * DefaultMaxWeight)
         ELSE 0
    ELSE 0      \* an indicator with only "dir" matches no branch of the scan

RECURSIVE SumScores(_, _)
SumScores(d, inds) ==
    IF inds = <<>> THEN 0 ELSE IndicatorScore(d, Head(inds)) + SumScores(d, Tail(inds))

raw_scores(d, pt) == SumScores(d, PROJECT_TYPE_INDICATORS[pt])
max_possible_scores(pt) == Len(PROJECT_TYPE_INDICATORS[pt]) * DefaultIndicatorWeight

\* a fraction num / den with den > 0
Frac(n, m) == [num |-> n, den |-> m]
Less(x, y) == x.num * y.den < y.num * x.den

normalized_scores(d, pt) ==
    IF max_possible_scores(pt) > 0
    THEN Frac(raw_scores(d, pt), 2 * max_possible_scores(pt))
    ELSE Frac(0, 1)

\* the confidence threshold 0.15, as ThresholdNum / ThresholdDen
ThresholdNum == 15
ThresholdDen == 100

RECURSIVE ArgMax(_, _, _)
\* for project_type, score in normalized_scores.items(): if score > max_score
ArgMax(scores, i, best) ==
    IF i > Len(ProjectTypes) THEN best
    ELSE LET pt == ProjectTypes[i]
         IN ArgMax(scores, i + 1,
                   IF Less(best.score, scores[pt]) THEN [type |-> pt, score |-> scores[pt]]
                   ELSE best)

\* a detector that keeps the best-scoring type whatever its score
NoThreshold(best) == best.type

\* if confidence < 0.15: detected_type = ProjectType.GENERIC
Threshold(best) ==
    IF Less(best.score, Frac(ThresholdNum, ThresholdDen)) THEN "generic" ELSE best.type

RangeOf(seq) == {seq[i] : i \in 1..Len(seq)}

detect_project_type(d) ==
    IF ~d.exists
    THEN [type |-> "generic", confidence |-> Frac(0, 1),
          scores |-> [pt \in RangeOf(ProjectTypes) |-> Frac(0, 1)]]
    ELSE LET scores == [pt \in RangeOf(ProjectTypes) |-> normalized_scores(d, pt)]
             best == ArgMax(scores, 1, [type |-> "generic", score |-> Frac(0, 1)])
         IN [type |-> Threshold(best), confidence |-> best.score, scores |-> scores]

(***************************************************************************)
(* The detector as a state machine: files appear in a directory, and the   *)
(* directory is scanned                                                    *)
(***************************************************************************)
MaxEntries == 4     \* most files in the scanned directory

RECURSIVE SumCounts(_, _)
SumCounts(f, xs) ==
    IF xs = {} THEN 0
    ELSE LET x == CHOOSE y \in xs : TRUE IN f[x] + SumCounts(f, xs \ {x})

Entries(d) == Cardinality(d.files) + SumCounts(d.sources, Extensions)

InitDetect ==
    /\ dir \in { [exists |-> e, files |-> {}, sources |-> [x \in Extensions |-> 0]] :
                    e \in BOOLEAN }
    /\ detected = "none"
    /\ pc = "start"
    /\ MergeUnused /\ ValidateUnused /\ HierUnused /\ PathUnused /\ UserUnused /\ RaceUnused

\* a file an indicator names is created in the directory
CreateIndicatorFile ==
    /\ dir.exists /\ Entries(dir) < MaxEntries
    /\ \E f \in IndicatorFiles \ dir.files : dir' = [dir EXCEPT !.files = @ \cup {f}]
    /\ detected' = "none" /\ pc' = "start"
    /\ UNCHANGED <<mergeVars, validateVars, hierVars, pathVars, userVars, raceVars>>

\* a source file with a counted extension is created somewhere under the directory
CreateSourceFile ==
    /\ dir.exists /\ Entries(dir) < MaxEntries
    /\ \E x \in Extensions : dir' = [dir EXCEPT !.sources[x] = @ + 1]
    /\ detected' = "none" /\ pc' = "start"
    /\ UNCHANGED <<mergeVars, validateVars, hierVars, pathVars, userVars, raceVars>>

\* detected = detect_project_type(dir)
DetectProjectType ==
    /\ pc = "start"
    /\ detected' = detect_project_type(dir)
    /\ pc' = "detected"
    /\ UNCHANGED <<dir, mergeVars, validateVars, hierVars, pathVars, userVars, raceVars>>

NextDetect == CreateIndicatorFile \/ CreateSourceFile \/ DetectProjectType

SpecDetect == InitDetect /\ [][NextDetect]_vars

(***************************************************************************)
(* Properties of the detector                                              *)
(***************************************************************************)
FracEq(x, y) == x.num * y.den = y.num * x.den
InUnitInterval(x) == 0 <= x.num /\ x.num <= x.den

\* C5: the confidence and every per-type normalized score are in [0,1]: the
\* raw score of a type never exceeds its maximum possible score.
C5_ScoresInUnitInterval ==
    pc = "detected" =>
        /\ InUnitInterval(detected.confidence)
        /\ \A pt \in RangeOf(ProjectTypes) : InUnitInterval(detected.scores[pt])

\* the highest of the returned normalized scores
MaxScore ==
    CHOOSE m \in {detected.scores[pt] : pt \in RangeOf(ProjectTypes)} :
        \A pt \in RangeOf(ProjectTypes) : ~Less(m, detected.scores[pt])

BelowThreshold(x) == Less(x, Frac(ThresholdNum, ThresholdDen))

\* C6: generic is returned exactly when the highest normalized score is below
\* 0.15; otherwise the returned type has the highest score and the confidence
\* is that score. A directory that does not exist gives generic, confidence 0.
C6_GenericIffBelowThreshold ==
    pc = "detected" =>
        /\ (detected.type = "generic") <=> BelowThreshold(MaxScore)
        /\ ~BelowThreshold(MaxScore) =>
              /\ FracEq(detected.scores[detected.type], MaxScore)
              /\ FracEq(detected.confidence, MaxScore)
        /\ ~dir.exists => (detected.type = "generic" /\ detected.confidence.num = 0)

\* some type scored, but below the threshold, and generic was returned
C6_Witness ==
    /\ pc = "detected"
    /\ detected.type = "generic"
    /\ detected.confidence.num > 0
    /\ \E pt \in RangeOf(ProjectTypes) : detected.scores[pt].num > 0

(***************************************************************************)
(* The configuration schema (pydantic models of config/schema.py)          *)
(*                                                                         *)
(* A configuration mapping is a tree value; a ConfigurationSchema is the   *)
(* record of its validated fields, each still a tagged value.              *)
(***************************************************************************)
B(x) == [t |-> "b", v |-> x]          \* a boolean

ProjectTypeValues == RangeOf(ProjectTypes)
BranchingStrategyValues == {"gitflow", "github-flow", "trunk"}
WorkflowModeValues == {"solo", "team"}
VersionBumpValues == {"major", "minor", "patch", "none"}

\* re.compile on the patterns of this model: the ones that do not compile, and
\* the ones that compile without a capture group
InvalidPatterns == {"^feature/([A-Z]+"}
GrouplessPatterns == {"\\d+\\.\\d+\\.\\d+"}
RegexCompiles(pattern) == pattern \notin InvalidPatterns
HasCaptureGroup(pattern) == pattern \notin GrouplessPatterns

Get(f, k, default) == IF k \in DOMAIN f THEN f[k] ELSE default

IsStr(x) == x.t = "s"
IsOptionalStr(x) == x.t \in {"s", "n"}
IsEnum(x, values) == x.t = "s" /\ x.v \in values
IsBool(x) == x.t = "b"
IsStrList(x) == x.t = "l" /\ \A i \in 1..Len(x.v) : x.v[i] \in STRING

\* BranchConfig(**x)
BranchConfigOK(x) ==
    /\ x.t = "m"
    /\ "pattern" \in DOMAIN x.v /\ IsStr(x.v["pattern"])
    /\ RegexCompiles(x.v["pattern"].v)
    /\ "base" \in DOMAIN x.v /\ IsStr(x.v["base"])
    /\ "target" \in DOMAIN x.v => (x.v["target"] = Null \/ IsStrList(x.v["target"]))
    /\ "version_bump" \in DOMAIN x.v =>
          (x.v["version_bump"] = Null \/ IsEnum(x.v["version_bump"], VersionBumpValues))

BranchConfig(x) ==
    [pattern |-> x.v["pattern"], base |-> x.v["base"],
     target |-> Get(x.v, "target", Null), version_bump |-> Get(x.v, "version_bump", Null)]

\* VersionFileConfig(**x)
VersionFileConfigOK(x) ==
    /\ x.t = "m"
    /\ "path" \in DOMAIN x.v /\ IsStr(x.v["path"])
    /\ "pattern" \in DOMAIN x.v /\ IsStr(x.v["pattern"])
    /\ RegexCompiles(x.v["pattern"].v) /\ HasCaptureGroup(x.v["pattern"].v)

\* VersionConfig(**x), or None
VersionConfigOK(x) ==
    \/ x = Null
    \/ /\ x.t = "m"
       /\ "files" \in DOMAIN x.v /\ x.v["files"].t = "l"
       /\ \A i \in 1..Len(x.v["files"].v) : VersionFileConfigOK(x.v["files"].v[i])
       /\ "use_bumpversion" \in DOMAIN x.v => IsBool(x.v["use_bumpversion"])
       /\ "bumpversion_config" \in DOMAIN x.v => IsOptionalStr(x.v["bumpversion_config"])
       /\ "changelog" \in DOMAIN x.v => IsOptionalStr(x.v["changelog"])

VersionConfig(x) ==
    IF x = Null THEN Null
    ELSE M([files |-> x.v["files"],
            use_bumpversion |-> Get(x.v, "use_bumpversion", B(TRUE)),
            bumpversion_config |-> Get(x.v, "bumpversion_config", S(".bumpversion.cfg")),
            changelog |-> Get(x.v, "changelog", S("CHANGELOG.md"))])

\* JiraConfig(**x), or None
JiraConfigOK(x) ==
    \/ x = Null
    \/ /\ x.t = "m"
       /\ "project_key" \in DOMAIN x.v /\ IsStr(x.v["project_key"])
       /\ "enabled" \in DOMAIN x.v => IsBool(x.v["enabled"])

JiraConfig(x) ==
    IF x = Null THEN Null
    ELSE M([enabled |-> Get(x.v, "enabled", B(TRUE)), project_key |-> x.v["project_key"]])

\* GitHubConfig(**x), or None
GitHubConfigOK(x) ==
    \/ x = Null
    \/ /\ x.t = "m"
       /\ "enabled" \in DOMAIN x.v => IsBool(x.v["enabled"])

GitHubConfig(x) ==
    IF x = Null THEN Null ELSE M([enabled |-> Get(x.v, "enabled", B(TRUE))])

\* the fields of ConfigurationSchema with their defaults
Fields(c) ==
    [project_type |-> Get(c, "project_type", S("python")),
     branching_strategy |-> Get(c, "branching_strategy", S("gitflow")),
     workflow_mode |-> Get(c, "workflow_mode", S("solo")),
     main_branch |-> Get(c, "main_branch", S("main")),
     develop_branch |-> Get(c, "develop_branch", S("develop")),
     branches |-> Get(c, "branches", M(EmptyDict)),
     version |-> Get(c, "version", Null),
     pull_requests |-> Get(c, "pull_requests", Null),
     jira |-> Get(c, "jira", Null),
     github |-> Get(c, "github", Null)]

\* field validation of ConfigurationSchema(**c)
FieldsOK(f) ==
    /\ IsEnum(f.project_type, ProjectTypeValues)
    /\ IsEnum(f.branching_strategy, BranchingStrategyValues)
    /\ IsEnum(f.workflow_mode, WorkflowModeValues)
    /\ IsStr(f.main_branch)
    /\ IsOptionalStr(f.develop_branch)
    /\ f.branches.t = "m"
    /\ \A b \in DOMAIN f.branches.v : BranchConfigOK(f.branches.v[b])
    /\ VersionConfigOK(f.version)
    /\ f.pull_requests.t \in {"m", "n"}
    /\ JiraConfigOK(f.jira)
    /\ GitHubConfigOK(f.github)

\* not x, for an Optional[str]
Falsy(x) == x = Null \/ x = S("")

\* ConfigurationSchema.validate_branch_configs
validate_branch_configs(f) ==
    /\ f.branching_strategy.v = "gitflow" => ~Falsy(f.develop_branch)
    /\ "feature" \in DOMAIN f.branches.v

\* ConfigurationSchema.validate_version_config
validate_version_config(f) ==
    f.version # Null => f.version.v["files"].v # <<>>

\* ConfigurationSchema(**c) does not raise
SchemaAccepts(c) ==
    /\ FieldsOK(Fields(c))
    /\ validate_branch_configs(Fields(c))
    /\ validate_version_config(Fields(c))

\* the ConfigurationSchema built from the mapping c, when SchemaAccepts(c)
ConfigurationSchema(c) ==
    LET f == Fields(c)
    IN [project_type |-> f.project_type,
        branching_strategy |-> f.branching_strategy,
        workflow_mode |-> f.workflow_mode,
        main_branch |-> f.main_branch,
        develop_branch |-> f.develop_branch,
        branches |-> [b \in DOMAIN f.branches.v |-> BranchConfig(f.branches.v[b])],
        version |-> VersionConfig(f.version),
        pull_requests |-> f.pull_requests,
        jira |-> JiraConfig(f.jira),
        github |-> GitHubConfig(f.github)]

(***************************************************************************)
(* The validator (config/validator.py)                                     *)
(***************************************************************************)
Err(kind, subject, detail) == [kind |-> kind, subject |-> subject, detail |-> detail]

\* the order in which a branches dictionary is walked
BranchOrder == <<"feature", "bugfix", "hotfix", "release", "docs", "custom">>

RECURSIVE Concat(_)
\* the concatenation of a sequence of sequences
Concat(ss) == IF ss = <<>> THEN <<>> ELSE Head(ss) \o Concat(Tail(ss))

\* the concatenation of e[x] for x in xs
ForEach(xs, e) == Concat([i \in 1..Len(xs) |-> e[xs[i]]])

\* the required branch types of a strategy, in the order they are checked
RequiredBranches(strategy) ==
    IF strategy = "gitflow" THEN <<"feature", "bugfix", "release", "hotfix">>
    ELSE <<"feature", "bugfix">>

\* a validator that knows the main branch only
MainBranchOnly(config) == {config.main_branch}

\* the branch names config.main_branch and config.develop_branch stand for
KnownBranches(config) == {config.main_branch, config.develop_branch}

RequiredErrors(config) ==
    (IF config.branching_strategy.v = "gitflow" /\ Falsy(config.develop_branch)
     THEN <<Err("requires_develop_branch", "gitflow", "")>> ELSE <<>>)
    \o ForEach(RequiredBranches(config.branching_strategy.v),
               [b \in RangeOf(RequiredBranches(config.branching_strategy.v)) |->
                   IF b \notin DOMAIN config.branches
                          THEN <<Err("requires_branch", config.branching_strategy.v, b)>>
                          ELSE <<>>])

PatternErrors(config) ==
    ForEach(BranchOrder,
            [b \in RangeOf(BranchOrder) |->
                IF b \in DOMAIN config.branches
                          /\ ~RegexCompiles(config.branches[b].pattern.v)
                       THEN <<Err("invalid_pattern", b, config.branches[b].pattern.v)>>
                       ELSE <<>>])

BaseErrors(config) ==
    ForEach(BranchOrder,
            [b \in RangeOf(BranchOrder) |->
                IF b \in DOMAIN config.branches
                          /\ config.branches[b].base \notin KnownBranches(config)
                       THEN <<Err("base_not_configured", b, config.branches[b].base.v)>>
                       ELSE <<>>])

TargetErrorsOf(config, b) ==
    LET target == config.branches[b].target
    IN IF target = Null THEN <<>>
       ELSE ForEach(target.v,
                    [x \in RangeOf(target.v) |->
                        IF S(x) \notin KnownBranches(config)
                               THEN <<Err("target_not_configured", b, x)>> ELSE <<>>])

TargetErrors(config) ==
    ForEach(BranchOrder,
            [b \in RangeOf(BranchOrder) |->
                IF b \in DOMAIN config.branches THEN TargetErrorsOf(config, b)
                       ELSE <<>>])

_validate_branch_configs(config) ==
    RequiredErrors(config) \o PatternErrors(config) \o BaseErrors(config)
        \o TargetErrors(config)

_validate_version_configs(config) ==
    LET files == config.version.v["files"].v
    IN (IF files = <<>> THEN <<Err("version_requires_file", "", "")>> ELSE <<>>)
       \o ForEach(files,
                  [f \in RangeOf(files) |->
                      IF ~RegexCompiles(f.v["pattern"].v)
                             THEN <<Err("invalid_version_pattern", "", f.v["pattern"].v)>>
                             ELSE IF ~HasCaptureGroup(f.v["pattern"].v)
                             THEN <<Err("no_capture_group", "", f.v["pattern"].v)>>
                             ELSE <<>>])

_validate_jira_configs(config) ==
    IF config.jira.v["project_key"] = S("")
    THEN <<Err("jira_requires_project_key", "", "")>> ELSE <<>>

_validate_github_configs(config) == <<>>

\* validate_config on a ConfigurationSchema: the list of errors
SchemaErrors(config) ==
    _validate_branch_configs(config)
    \o (IF config.version # Null THEN _validate_version_configs(config) ELSE <<>>)
    \o (IF config.jira # Null /\ config.jira.v["enabled"] = B(TRUE)
        THEN _validate_jira_configs(config) ELSE <<>>)
    \o (IF config.github # Null /\ config.github.v["enabled"] = B(TRUE)
        THEN _validate_github_configs(config) ELSE <<>>)

\* a validate_config that lets the exception of ConfigurationSchema(**config) out
SchemaErrorPropagates(input) ==
    [raised |-> TRUE, is_valid |-> FALSE, errors |-> <<>>]

\* except Exception as e: return False, [f"Schema validation error: {e}"]
SchemaErrorReturned(input) ==
    [raised |-> FALSE, is_valid |-> FALSE,
     errors |-> <<Err("schema_validation_error", "", "")>>]

\* validate_config: input.kind is "dict" (a mapping, converted first) or
\* "schema" (a ConfigurationSchema); the result is (is_valid, errors), and
\* raised tells whether an exception left the function
validate_config(input) ==
    IF input.kind = "dict" /\ ~SchemaAccepts(input.config)
    THEN SchemaErrorReturned(input)
    ELSE LET config == IF input.kind = "dict" THEN ConfigurationSchema(input.config)
                       ELSE input.config
             errors == SchemaErrors(config)
         IN [raised |-> FALSE, is_valid |-> Len(errors) = 0, errors |-> errors]

(***************************************************************************)
(* Default configurations (config/detector.py)                             *)
(***************************************************************************)
BranchCfg(pattern, base, target, bump) ==
    M(Mapping([pattern |-> S(pattern), base |-> S(base), target |-> target,
               version_bump |-> bump]))

DefaultBranches ==
    [feature |-> BranchCfg("^feature/([A-Z]+-\\d+)-(.+)$", "develop", Absent, Null),
     bugfix |-> BranchCfg("^bugfix/([A-Z]+-\\d+)-(.+)$", "develop", Absent, Null),
     hotfix |-> BranchCfg("^hotfix/(\\d+\\.\\d+\\.\\d+(?:-[a-zA-Z0-9.]+)?)-(.+)$",
                          "main", L(<<"main", "develop">>), S("patch")),
     release |-> BranchCfg("^release/(\\d+\\.\\d+\\.\\d+(?:-[a-zA-Z0-9.]+)?)(?:-(.+))?$",
                           "develop", L(<<"main", "develop">>), S("minor")),
     docs |-> BranchCfg("^docs/(.+)$", "develop", Absent, Null)]

get_default_gitflow_config ==
    [branching_strategy |-> S("gitflow"),
     main_branch |-> S("main"),
     develop_branch |-> S("develop"),
     branches |-> M(DefaultBranches)]

VersionFile(path, pattern) == M([path |-> S(path), pattern |-> S(pattern)])

get_default_python_version_config ==
    M([files |-> L(<<VersionFile("src/__project__/__init__.py",
                                 "__version__ = \"(\\d+\\.\\d+\\.\\d+)\""),
                     VersionFile("pyproject.toml", "version = \"(\\d+\\.\\d+\\.\\d+)\"")>>),
       use_bumpversion |-> B(TRUE),
       bumpversion_config |-> S(".bumpversion.cfg"),
       changelog |-> S("CHANGELOG.md")])

get_default_javascript_version_config ==
    M([files |-> L(<<VersionFile("package.json", "\"version\": \"(\\d+\\.\\d+\\.\\d+)\"")>>),
       use_bumpversion |-> B(FALSE),
       changelog |-> S("CHANGELOG.md")])

get_default_java_version_config ==
    M([files |-> L(<<VersionFile("pom.xml", "<version>(\\d+\\.\\d+\\.\\d+)</version>")>>),
       use_bumpversion |-> B(FALSE),
       changelog |-> S("CHANGELOG.md")])

get_default_generic_version_config ==
    M([files |-> L(<<VersionFile("VERSION", "(\\d+\\.\\d+\\.\\d+)")>>),
       use_bumpversion |-> B(FALSE),
       changelog |-> S("CHANGELOG.md")])

\* the templates are kept by their first line
get_default_pr_config ==
    M([templates |-> M([feature |-> S("# {ticket_id}: {description}"),
                        bugfix |-> S("# {ticket_id}: Fix {description}"),
                        release |-> S("# Release {version}"),
                        hotfix |-> S("# Hotfix {version}: {description}")]),
       checks |-> M([run_tests |-> B(TRUE), run_linting |-> B(TRUE)])])

get_default_jira_config ==
    M([enabled |-> B(TRUE), project_key |-> S("PMS"),
       transition_to_in_progress |-> B(TRUE), update_on_pr_creation |-> B(TRUE)])

get_default_github_config ==
    M([enabled |-> B(TRUE), create_pr |-> B(TRUE), required_checks |-> L(<<"tests">>)])

get_default_config(project_type) ==
    get_default_gitflow_config
    @@ [project_type |-> S(project_type),
        workflow_mode |-> S("solo"),
        version |-> IF project_type = "python" THEN get_default_python_version_config
                    ELSE IF project_type \in {"javascript", "typescript"}
                    THEN get_default_javascript_version_config
                    ELSE IF project_type = "java" THEN get_default_java_version_config
                    ELSE get_default_generic_version_config,
        pull_requests |-> get_default_pr_config,
        jira |-> get_default_jira_config,
        github |-> get_default_github_config]

(***************************************************************************)
(* The validator as a state machine                                        *)
(***************************************************************************)
Restrict(f, ks) == [k \in DOMAIN f \cap ks |-> f[k]]

\* the patterns a bugfix branch and a version file are given
BugfixPatterns == {DefaultBranches["bugfix"].v["pattern"].v, "^feature/([A-Z]+"}

VersionBlocks ==
    {Absent,
     get_default_generic_version_config,
     M([files |-> L(<<VersionFile("VERSION", "\\d+\\.\\d+\\.\\d+")>>)])}

\* the default branch types bs, the bugfix pattern being p
BranchesOf(bs, p) ==
    [b \in bs |-> IF b = "bugfix" THEN M([DefaultBranches[b].v EXCEPT !["pattern"] = S(p)])
                  ELSE DefaultBranches[b]]

\* configurations over the default branch types: any strategy, any subset of
\* the branch types, with or without a develop branch, main branch renamed or
\* not, a bugfix pattern that compiles or not, a version block or none
ValidateInputs ==
    { Mapping([branching_strategy |-> S(s), main_branch |-> m, develop_branch |-> d,
               branches |-> M(BranchesOf(bs, p)), version |-> v]) :
        s \in BranchingStrategyValues,
        m \in {S("main"), S("trunk")},
        d \in {S("develop"), Null},
        bs \in SUBSET {"feature", "bugfix", "hotfix", "release", "docs"},
        p \in BugfixPatterns,
        v \in VersionBlocks }

\* the input is a mapping, or a ConfigurationSchema; the fields of a
\* ConfigurationSchema can be assigned after it was built, and pydantic does
\* not validate them again, so an object can hold what the schema rejects
InitValidate ==
    /\ vinput \in { [kind |-> "dict", config |-> c] : c \in ValidateInputs }
                  \cup { [kind |-> "schema", config |-> ConfigurationSchema(c)] :
                            c \in ValidateInputs }
    /\ vresult = "none"
    /\ pc = "start"
    /\ MergeUnused /\ DetectUnused /\ HierUnused /\ PathUnused /\ UserUnused /\ RaceUnused

\* vresult = validate_config(vinput)
ValidateConfig ==
    /\ pc = "start"
    /\ vresult' = validate_config(vinput)
    /\ pc' = "validated"
    /\ UNCHANGED <<vinput, mergeVars, detectVars, hierVars, pathVars, userVars, raceVars>>

NextValidate == ValidateConfig

SpecValidate == InitValidate /\ [][NextValidate]_vars

(***************************************************************************)
(* Properties of the validator                                             *)
(***************************************************************************)
InputStrategy ==
    IF vinput.kind = "dict" THEN Get(vinput.config, "branching_strategy", S("gitflow")).v
    ELSE vinput.config.branching_strategy.v

InputBranchTypes ==
    IF vinput.kind = "dict" THEN DOMAIN Get(vinput.config, "branches", M(EmptyDict)).v
    ELSE DOMAIN vinput.config.branches

RequiredByStrategy(strategy) ==
    IF strategy = "gitflow" THEN {"feature", "bugfix", "hotfix", "release"}
    ELSE {"feature", "bugfix"}

MissingBranchTypes == RequiredByStrategy(InputStrategy) \ InputBranchTypes

\* the branch types the required-branch errors of the result name
ReportedMissing ==
    {e.detail : e \in {x \in RangeOf(vresult.errors) : x.kind = "requires_branch"}}

\* C10: validate_config reports one distinct error per required branch type
\* that is absent from branches (feature, bugfix, hotfix, release for gitflow;
\* feature, bugfix for github-flow and trunk), and no such error for a type
\* that is present.
C10_ErrorPerMissingBranchType ==
    pc = "validated" =>
        /\ Cardinality(RangeOf(vresult.errors)) >= Cardinality(MissingBranchTypes)
        /\ ReportedMissing \subseteq MissingBranchTypes

\* the fields of the input as validate_config sees them
InputField(k) ==
    IF vinput.kind = "dict" THEN Fields(vinput.config)[k] ELSE vinput.config[k]

InputBranches ==
    IF vinput.kind = "dict"
    THEN [b \in DOMAIN Fields(vinput.config).branches.v |->
             BranchConfig(Fields(vinput.config).branches.v[b])]
    ELSE vinput.config.branches

InputKnownBranches == {InputField("main_branch"), InputField("develop_branch")}

\* the branch types whose base is neither main_branch nor develop_branch
DanglingBases ==
    {b \in DOMAIN InputBranches : InputBranches[b].base \notin InputKnownBranches}

\* the (branch type, target entry) pairs with an entry that is neither
DanglingTargets ==
    {bx \in UNION {{<<b, x>> : x \in (IF InputBranches[b].target = Null THEN {}
                                      ELSE RangeOf(InputBranches[b].target.v))} :
                      b \in DOMAIN InputBranches} :
        S(bx[2]) \notin InputKnownBranches}

ReportedBases ==
    {e.subject : e \in {x \in RangeOf(vresult.errors) : x.kind = "base_not_configured"}}

ReportedTargets ==
    {<<e.subject, e.detail>> :
        e \in {x \in RangeOf(vresult.errors) : x.kind = "target_not_configured"}}

\* C11: validate_config reports a base error for exactly the branch types
\* whose base is neither main_branch nor develop_branch and a target error
\* for exactly the target entries that are neither, and the result is
\* invalid whenever there is such a reference.
C11_DanglingReferencesReported ==
    pc = "validated" =>
        /\ ReportedBases = DanglingBases
        /\ ReportedTargets = DanglingTargets
        /\ (DanglingBases # {} \/ DanglingTargets # {}) => ~vresult.is_valid

\* the data problems of the input
MalformedBranchRegex ==
    \E b \in DOMAIN InputBranches : ~RegexCompiles(InputBranches[b].pattern.v)

VersionPatternWithoutGroup ==
    /\ InputField("version") # Null
    /\ \E i \in 1..Len(InputField("version").v["files"].v) :
          ~HasCaptureGroup(InputField("version").v["files"].v[i].v["pattern"].v)

HasDataProblem ==
    \/ MalformedBranchRegex
    \/ VersionPatternWithoutGroup
    \/ MissingBranchTypes # {}
    \/ DanglingBases # {} \/ DanglingTargets # {}

\* C12: validate_config never raises for data problems: an input with a
\* malformed branch regex, a version pattern without a capture group, a
\* missing required branch type or a dangling base or target gives False and
\* a non-empty error list; and the result is True exactly when the list is empty.
C12_DataProblemsNeverRaise ==
    pc = "validated" =>
        /\ ~vresult.raised
        /\ vresult.is_valid <=> (vresult.errors = <<>>)
        /\ HasDataProblem => (~vresult.is_valid /\ vresult.errors # <<>>)

\* a mapping whose only data problem is a bugfix pattern that does not
\* compile was validated and found invalid
C12_Witness ==
    /\ pc = "validated"
    /\ vinput.kind = "dict"
    /\ MalformedBranchRegex
    /\ MissingBranchTypes = {} /\ DanglingBases = {} /\ DanglingTargets = {}
    /\ ~VersionPatternWithoutGroup
    /\ ~vresult.is_valid

(***************************************************************************)
(* Configuration files on disk and the hierarchical loader                 *)
(*                                                                         *)
(* The project root is a directory `root` levels below the filesystem      *)
(* root; its ancestors are the levels below it, level 0 being the          *)
(* filesystem root.  A path is <<level, file name>>.  fs maps the paths    *)
(* that exist to what yaml.safe_load makes of the file.                    *)
(***************************************************************************)
CONFIG_FILENAME == ".practices.yaml"
CONFIG_FILENAME_ALT == ".practices.yml"
USER_CONFIG_FILENAME == ".practices.user.yaml"
USER_CONFIG_FILENAME_ALT == ".practices.user.yml"

\* a file that is not valid YAML
Invalid == [t |-> "invalid", v |-> "invalid"]

\* directory.parent; the filesystem root is its own parent
Parent(level) == IF level = 0 THEN 0 ELSE level - 1

Exists(files, path) == path \in DOMAIN files

\* find_config_file: a sequence of no path or one
find_config_file(files, level) ==
    IF Exists(files, <<level, CONFIG_FILENAME>>) THEN <<<<level, CONFIG_FILENAME>>>>
    ELSE IF Exists(files, <<level, CONFIG_FILENAME_ALT>>)
    THEN <<<<level, CONFIG_FILENAME_ALT>>>>
    ELSE <<>>

Entry(path, level) == [path |-> path, level |-> level]

\* the user config in the project directory
FindUserConfig(files, directory) ==
    IF Exists(files, <<directory, USER_CONFIG_FILENAME>>)
    THEN <<Entry(<<directory, USER_CONFIG_FILENAME>>, "user")>>
    ELSE IF Exists(files, <<directory, USER_CONFIG_FILENAME_ALT>>)
    THEN <<Entry(<<directory, USER_CONFIG_FILENAME_ALT>>, "user")>>
    ELSE <<>>

FindProjectConfig(files, directory) ==
    [i \in 1..Len(find_config_file(files, directory)) |->
        Entry(find_config_file(files, directory)[i], "project")]

RECURSIVE FindTeamConfigs(_, _)
\* while current != current.parent: ...; current = current.parent
FindTeamConfigs(files, current) ==
    IF current = Parent(current) THEN <<>>
    ELSE [i \in 1..Len(find_config_file(files, current)) |->
             Entry(find_config_file(files, current)[i], "team")]
         \o FindTeamConfigs(files, Parent(current))

\* a locator that returns the entries as it collected them
KeepOrder(seq) == seq

\* configs.reverse()
Reverse(seq) == [i \in 1..Len(seq) |-> seq[Len(seq) + 1 - i]]

\* a locator that ranks the project file above the user file
ProjectOverUser(files, directory) ==
    Reverse(FindProjectConfig(files, directory)
            \o FindUserConfig(files, directory)
            \o FindTeamConfigs(files, Parent(directory)))

find_hierarchical_configs(files, directory) ==
    Reverse(FindUserConfig(files, directory)
            \o FindProjectConfig(files, directory)
            \o FindTeamConfigs(files, Parent(directory)))

\* load_yaml_file raises on a file that is not valid YAML
LoadRaises(files, path) == files[path] = Invalid
\* an empty file: yaml.safe_load gives None, and load_yaml_file gives {}
EmptyFile == Null
load_yaml_file(files, path) ==
    IF files[path] = EmptyFile THEN EmptyDict ELSE files[path].v

\* the configurations of the files that load, in the order of config_files
LoadEach(files, config_files) ==
    ForEach(config_files,
            [e \in RangeOf(config_files) |->
                IF LoadRaises(files, e.path) THEN <<>>
                       ELSE <<load_yaml_file(files, e.path)>>])

\* load_hierarchical_config(directory): the ProjectConfig and the list of
\* configurations it returns, or raised when ConfigurationSchema(**merged) raises
load_hierarchical_config(files, d, directory) ==
    LET project_type == detect_project_type(d).type
        default_config == get_default_config(project_type)
        config_files == find_hierarchical_configs(files, directory)
        cfgs == <<default_config>> \o LoadEach(files, config_files)
        merged_config == MergeValues(cfgs)
    IN IF ~SchemaAccepts(merged_config) THEN [raised |-> TRUE]
       ELSE [raised |-> FALSE,
             config |-> ConfigurationSchema(merged_config),
             path |-> <<directory, CONFIG_FILENAME>>,
             is_default |-> Len(config_files) = 0,
             project_type |-> project_type]

\* a loader that answers a missing explicit file with what discovery finds
ExplicitMissingDiscovers(files, d, directory, path) ==
    load_hierarchical_config(files, d, directory)

\* if not path.exists(): raise FileNotFoundError
ExplicitMissing(files, d, directory, path) ==
    [raised |-> TRUE, error |-> "FileNotFoundError"]

\* the explicit-path branch of load_config
LoadExplicit(files, d, directory, path) ==
    IF ~Exists(files, path) THEN ExplicitMissing(files, d, directory, path)
    ELSE IF LoadRaises(files, path) THEN [raised |-> TRUE, error |-> "ValueError"]
    ELSE LET config_dict == load_yaml_file(files, path)
         IN IF ~SchemaAccepts(config_dict) THEN [raised |-> TRUE, error |-> "ValueError"]
            ELSE [raised |-> FALSE,
                  config |-> ConfigurationSchema(config_dict),
                  path |-> <<path>>,
                  is_default |-> FALSE]

\* the simple (non-hierarchical) branch of load_config
LoadSimple(files, d, directory, detect_project) ==
    LET path == find_config_file(files, directory)
        is_default == path = <<>>
        project_type == IF detect_project THEN detect_project_type(d).type ELSE "python"
    IN IF path # <<>> /\ LoadRaises(files, path[1])
       THEN [raised |-> TRUE, error |-> "ValueError"]
       ELSE LET config_dict == IF path # <<>> THEN load_yaml_file(files, path[1])
                               ELSE get_default_config(project_type)
            IN IF ~SchemaAccepts(config_dict)
               THEN [raised |-> TRUE, error |-> "ValueError"]
               ELSE [raised |-> FALSE,
                     config |-> ConfigurationSchema(config_dict),
                     path |-> path,
                     is_default |-> is_default]

\* load_config(directory, config_path, detect_project, use_hierarchy);
\* config_path is a sequence of no path (None) or one, and so is the path of
\* the ProjectConfig the explicit and the simple branch return
load_config(files, d, directory, config_path, detect_project, use_hierarchy) ==
    IF config_path # <<>> THEN LoadExplicit(files, d, directory, config_path[1])
    ELSE IF use_hierarchy THEN load_hierarchical_config(files, d, directory)
    ELSE LoadSimple(files, d, directory, detect_project)

(***************************************************************************)
(* The loader as a state machine: some files on disk, then a call          *)
(***************************************************************************)
MaxDepth == 3       \* deepest project root below the filesystem root
MaxFiles == 3       \* most configuration files on disk

\* the paths where a configuration file can be, for a project root at level p
Slots(p) ==
    {<<l, n>> : l \in 0..p, n \in {CONFIG_FILENAME, CONFIG_FILENAME_ALT}}
        \cup {<<p, n>> : n \in {USER_CONFIG_FILENAME, USER_CONFIG_FILENAME_ALT}}

\* what the files of each tier may hold
TeamContents ==
    <<M([branching_strategy |-> S("github-flow"), main_branch |-> S("master")]),
      M([main_branch |-> S("prod"), workflow_mode |-> S("team")]),
      Invalid>>

ProjectContents ==
    <<M([main_branch |-> S("release"),
         branches |-> M([feature |-> M([base |-> S("release")])])]),
      M([workflow_mode |-> S("team")]),
      Invalid>>

UserContents ==
    <<M([main_branch |-> S("trunk")]),
      M([develop_branch |-> Null]),
      Invalid>>

ContentAt(p, path, i) ==
    IF path[2] \in {USER_CONFIG_FILENAME, USER_CONFIG_FILENAME_ALT} THEN UserContents[i]
    ELSE IF path[1] = p THEN ProjectContents[i]
    ELSE TeamContents[i]

\* the project directories load_hierarchical_config scans: an empty one, and
\* one with package.json and three .js files
ProjectDirs ==
    { [exists |-> TRUE, files |-> {}, sources |-> [x \in Extensions |-> 0]],
      [exists |-> TRUE, files |-> {"package.json"},
       sources |-> [x \in Extensions |-> IF x = ".js" THEN 3 ELSE 0]] }

InitHier ==
    /\ root \in 0..MaxDepth
    /\ \E paths \in {ps \in SUBSET Slots(root) : Cardinality(ps) <= MaxFiles} :
         \E idx \in [paths -> 1..3] :
            fs = [x \in paths |-> ContentAt(root, x, idx[x])]
    /\ dir \in ProjectDirs
    /\ detected = Unused
    /\ found = "none"
    /\ loaded = "none"
    /\ pc = "start"
    /\ MergeUnused /\ ValidateUnused /\ PathUnused /\ UserUnused /\ RaceUnused

\* found = find_hierarchical_configs(root)
FindHierarchicalConfigs ==
    /\ pc = "start"
    /\ found' = find_hierarchical_configs(fs, root)
    /\ pc' = "found"
    /\ UNCHANGED <<fs, root, loaded, mergeVars, detectVars, validateVars, pathVars, userVars, raceVars>>

\* loaded = load_hierarchical_config(root)
LoadHierarchicalConfig ==
    /\ pc = "start"
    /\ loaded' = load_hierarchical_config(fs, dir, root)
    /\ pc' = "loaded"
    /\ UNCHANGED <<fs, root, found, mergeVars, detectVars, validateVars, pathVars, userVars, raceVars>>

\* the explicit paths a caller passes: the project file, the user file and
\* the file of the parent directory, each of which may be on disk or not
ConfigPaths(directory) ==
    { <<directory, CONFIG_FILENAME>>, <<directory, USER_CONFIG_FILENAME>>,
      <<Parent(directory), CONFIG_FILENAME_ALT>> }

\* loaded = load_config(root, config_path, detect_project, use_hierarchy)
LoadConfig ==
    /\ pc = "start"
    /\ \E config_path \in {<<>>} \cup {<<p>> : p \in ConfigPaths(root)} :
         \E detect_project \in BOOLEAN : \E use_hierarchy \in BOOLEAN :
            loaded' = [config_path |-> config_path,
                       result |-> load_config(fs, dir, root, config_path,
                                              detect_project, use_hierarchy)]
    /\ pc' = "config_loaded"
    /\ UNCHANGED <<fs, root, found, mergeVars, detectVars, validateVars, pathVars, userVars, raceVars>>

NextHier == FindHierarchicalConfigs \/ LoadHierarchicalConfig

MaxLoadFiles == 2   \* most configuration files on disk when load_config runs

InitLoad == InitHier /\ Cardinality(DOMAIN fs) <= MaxLoadFiles

SpecLoad == InitLoad /\ [][LoadConfig]_vars

SpecHier == InitHier /\ [][NextHier]_vars

(***************************************************************************)
(* Properties of the hierarchical loader                                   *)
(***************************************************************************)
ScalarKeys ==
    {"project_type", "branching_strategy", "workflow_mode", "main_branch",
     "develop_branch"}

\* the file of a directory under its preferred name, else its fallback name
FileIn(level, name, alt) ==
    IF Exists(fs, <<level, name>>) THEN <<<<level, name>>>>
    ELSE IF Exists(fs, <<level, alt>>) THEN <<<<level, alt>>>>
    ELSE <<>>

RECURSIVE TeamFilesFrom(_)
\* the files of the ancestors from the given level down to the parent of the
\* project root, the farthest ancestor first
TeamFilesFrom(level) ==
    IF level >= root THEN <<>>
    ELSE FileIn(level, CONFIG_FILENAME, CONFIG_FILENAME_ALT) \o TeamFilesFrom(level + 1)

\* the files of the three tiers, the lowest priority first; the team tier is
\* the ancestors below the filesystem root, where the upward walk stops
TierFiles ==
    TeamFilesFrom(1)
        \o FileIn(root, CONFIG_FILENAME, CONFIG_FILENAME_ALT)
        \o FileIn(root, USER_CONFIG_FILENAME, USER_CONFIG_FILENAME_ALT)

\* the sources that give values, the lowest priority first: the defaults of
\* the detected project type, then every tier file that is valid YAML
Sources ==
    <<get_default_config(loaded.project_type)>>
        \o ForEach(TierFiles, [f \in RangeOf(TierFiles) |->
                                  IF fs[f] = Invalid THEN <<>> ELSE <<fs[f].v>>])

Sets(i, key) == key \in DOMAIN Sources[i]

\* the highest-priority source that sets the key (0 when none does)
Highest(key) ==
    IF \E i \in 1..Len(Sources) : Sets(i, key)
    THEN CHOOSE i \in 1..Len(Sources) :
            Sets(i, key) /\ \A j \in (i + 1)..Len(Sources) : ~Sets(j, key)
    ELSE 0

C3_ResolvedConfigIsValid ==
    (pc = "loaded" /\ ~loaded.raised) =>
        validate_config([kind |-> "schema", config |-> loaded.config]).is_valid

TierRank(level) == CASE level = "team" -> 1 [] level = "project" -> 2 [] level = "user" -> 3

\* C4: the locator lists the team files first, from the farthest ancestor to
\* the nearest, then the project file if there is one, then the user file if
\* there is one; it lists at most one project file and one user file, and
\* only files that exist
C4_LowestPriorityFirst ==
    pc = "found" =>
        /\ \A i \in 1..Len(found) :
              /\ Exists(fs, found[i].path)
              /\ found[i].level = "team" => found[i].path[1] < root
              /\ found[i].level # "team" => found[i].path[1] = root
        /\ \A i, j \in 1..Len(found) : i < j =>
              /\ TierRank(found[i].level) <= TierRank(found[j].level)
              /\ found[i].level = "team" /\ found[j].level = "team"
                    => found[i].path[1] < found[j].path[1]
              /\ found[i].level # "team" => found[i].level # found[j].level
        /\ (\E i \in 1..Len(found) : found[i].level = "project")
              <=> FileIn(root, CONFIG_FILENAME, CONFIG_FILENAME_ALT) # <<>>
        /\ (\E i \in 1..Len(found) : found[i].level = "user")
              <=> FileIn(root, USER_CONFIG_FILENAME, USER_CONFIG_FILENAME_ALT) # <<>>

\* two team files and a project or user file are found
C4_Witness ==
    /\ pc = "found"
    /\ Len(found) = 3
    /\ found[1].level = "team" /\ found[2].level = "team"
    /\ found[3].level \in {"project", "user"}

(***************************************************************************)
(* The file-existence validator (config/validator.py), the validate tool   *)
(* (tools/config_tools.py) and the verify script (verify_config.py)        *)
(*                                                                         *)
(* A path is the string the configuration holds; disk is the set of the    *)
(* paths that exist under the project root.                                *)
(***************************************************************************)
\* "__project__" in s, for the strings of this model
PlaceholderStrings ==
    {"src/__project__/__init__.py", "__project__/.bumpversion.cfg",
     "docs/__project__/CHANGELOG.md", "/work/__project__"}
HasPlaceholder(s) == s \in PlaceholderStrings

\* "/" in s, for the strings of this model
SeparatorStrings ==
    {"src/__project__/__init__.py", "__project__/.bumpversion.cfg",
     "docs/__project__/CHANGELOG.md", "pkg/__init__.py", ".github/feature.md",
     "/work/__project__", "/work/app"}
HasSeparator(s) == s \in SeparatorStrings

\* "__project__" in (project_root / path).as_posix()
JoinedHasPlaceholder(project_root, path) ==
    HasPlaceholder(project_root) \/ HasPlaceholder(path)

\* missing_files.append(<the configured string>)
ReportConfigured(project_root, path) == path

\* if not file_path.exists(): missing_files.append(...)
CheckPath(project_root, files, path) ==
    IF path \notin files THEN <<ReportConfigured(project_root, path)>> ELSE <<>>

\* the loop over config.version.files
MissingVersionFiles(config, project_root, files) ==
    ForEach(config.version.v["files"].v,
            [f \in RangeOf(config.version.v["files"].v) |->
                IF JoinedHasPlaceholder(project_root, f.v["path"].v) THEN <<>>
                ELSE CheckPath(project_root, files, f.v["path"].v)])

\* if config.version.use_bumpversion and config.version.bumpversion_config
MissingBumpversionConfig(config, project_root, files) ==
    IF /\ config.version.v["use_bumpversion"] = B(TRUE)
       /\ ~Falsy(config.version.v["bumpversion_config"])
    THEN CheckPath(project_root, files, config.version.v["bumpversion_config"].v)
    ELSE <<>>

\* if config.version.changelog
MissingChangelog(config, project_root, files) ==
    IF ~Falsy(config.version.v["changelog"])
    THEN CheckPath(project_root, files, config.version.v["changelog"].v)
    ELSE <<>>

\* the fields of PRTemplateConfig, in the order model_dump gives them
TemplateOrder == <<"feature", "bugfix", "release", "hotfix", "docs">>

\* the loop over templates.model_dump(exclude_none=True)
MissingTemplates(config, project_root, files) ==
    IF config.pull_requests = Null THEN <<>>
    ELSE IF Get(config.pull_requests.v, "templates", Null) = Null THEN <<>>
    ELSE LET templates == config.pull_requests.v["templates"].v
         IN ForEach(TemplateOrder,
                    [n \in RangeOf(TemplateOrder) |->
                        IF Get(templates, n, Null) = Null THEN <<>>
                        ELSE IF HasSeparator(templates[n].v)
                        THEN CheckPath(project_root, files, templates[n].v)
                        ELSE <<>>])

\* validate_file_paths(config, project_root): (all_exist, missing_files)
validate_file_paths(config, project_root, files) ==
    LET missing_files ==
            (IF config.version # Null
             THEN MissingVersionFiles(config, project_root, files)
                  \o MissingBumpversionConfig(config, project_root, files)
                  \o MissingChangelog(config, project_root, files)
             ELSE <<>>)
            \o MissingTemplates(config, project_root, files)
    IN [all_exist |-> Len(missing_files) = 0, missing_files |-> missing_files]

\* validate_config_tool, for the configuration get_project_config gave
validate_config_tool(config, project_root, files) ==
    LET v == validate_config([kind |-> "schema", config |-> config])
        p == validate_file_paths(config, project_root, files)
    IN IF v.is_valid /\ ~p.all_exist
       THEN [valid |-> FALSE, errors |-> v.errors, missing_files |-> p.missing_files]
       ELSE [valid |-> v.is_valid, errors |-> v.errors, missing_files |-> <<>>]

\* main of verify_config.py from validate_config on: the exit status
verify_config(config, project_root, files, show_files) ==
    IF ~validate_config([kind |-> "schema", config |-> config]).is_valid
    THEN 1      \* sys.exit(1)
    ELSE 0      \* the file check only prints; sys.exit(0)

(***************************************************************************)
(* The file checks as a state machine: files appear under the project      *)
(* root, then one of the three operations runs                             *)
(***************************************************************************)
MaxVersionFiles == 2    \* most entries of version.files

VersionPaths == {"VERSION", "pkg/__init__.py", "src/__project__/__init__.py"}
BumpversionPaths == {".bumpversion.cfg", "__project__/.bumpversion.cfg"}
ChangelogPaths == {"CHANGELOG.md", "docs/__project__/CHANGELOG.md"}
FeatureTemplates == {"# {ticket_id}: {description}", ".github/feature.md"}
ProjectRoots == {"/work/app", "/work/__project__"}

\* the paths that can come to exist
DiskPaths ==
    {"VERSION", "pkg/__init__.py", ".bumpversion.cfg", "CHANGELOG.md",
     ".github/feature.md"}

PathVersionBlocks ==
    {Absent} \cup
    { M([files |-> L([i \in DOMAIN ps |-> VersionFile(ps[i], "(\\d+\\.\\d+\\.\\d+)")]),
         use_bumpversion |-> B(u),
         bumpversion_config |-> S(b),
         changelog |-> S(c)]) :
        ps \in UNION {[1..k -> VersionPaths] : k \in 1..MaxVersionFiles},
        u \in BOOLEAN, b \in BumpversionPaths, c \in ChangelogPaths }

\* validated configurations: the generic defaults with a version block, a
\* feature PR template and a main branch of choice
PathConfigs ==
    { Mapping([get_default_config("generic") EXCEPT
                  !["main_branch"] = m,
                  !["version"] = v,
                  !["pull_requests"] = M([templates |-> M([feature |-> S(t)])])]) :
        m \in {S("main"), S("trunk")}, v \in PathVersionBlocks, t \in FeatureTemplates }

InitPaths ==
    /\ pconfig \in {ConfigurationSchema(c) : c \in PathConfigs}
    /\ proot \in ProjectRoots
    /\ disk = {}
    /\ presult = "none"
    /\ pc = "start"
    /\ MergeUnused /\ DetectUnused /\ ValidateUnused /\ HierUnused /\ UserUnused /\ RaceUnused

\* a file is created under the project root
CreateFile ==
    /\ pc = "start"
    /\ \E f \in DiskPaths \ disk : disk' = disk \cup {f}
    /\ UNCHANGED <<pconfig, proot, presult, pc, mergeVars, detectVars, validateVars,
                   hierVars, userVars, raceVars>>

\* presult = validate_file_paths(pconfig, proot)
ValidateFilePaths ==
    /\ pc = "start"
    /\ presult' = validate_file_paths(pconfig, proot, disk)
    /\ pc' = "files_checked"
    /\ UNCHANGED <<pconfig, proot, disk, mergeVars, detectVars, validateVars, hierVars, userVars, raceVars>>

\* presult = validate_config_tool()
ValidateConfigTool ==
    /\ pc = "start"
    /\ presult' = validate_config_tool(pconfig, proot, disk)
    /\ pc' = "tool_done"
    /\ UNCHANGED <<pconfig, proot, disk, mergeVars, detectVars, validateVars, hierVars, userVars, raceVars>>

\* the verify script runs, with or without --show-files
VerifyConfig ==
    /\ pc = "start"
    /\ \E show_files \in BOOLEAN :
          presult' = [show_files |-> show_files,
                      exit_status |-> verify_config(pconfig, proot, disk, show_files)]
    /\ pc' = "verified"
    /\ UNCHANGED <<pconfig, proot, disk, mergeVars, detectVars, validateVars, hierVars, userVars, raceVars>>

NextPaths == CreateFile \/ ValidateFilePaths \/ ValidateConfigTool \/ VerifyConfig

SpecPaths == InitPaths /\ [][NextPaths]_vars

(***************************************************************************)
(* Properties of the file checks                                           *)
(***************************************************************************)
\* the PR templates pconfig holds, in field order
ConfiguredTemplates ==
    SelectSeq([i \in DOMAIN TemplateOrder |->
                  Get(pconfig.pull_requests.v["templates"].v, TemplateOrder[i], Null)],
              LAMBDA t : t # Null)

\* the paths pconfig refers to, in check order: the version files, the
\* bumpversion config if use_bumpversion, the changelog, the PR templates that
\* hold a path separator
ReferencedPaths ==
    (IF pconfig.version = Null THEN <<>>
     ELSE [i \in DOMAIN pconfig.version.v["files"].v |->
              pconfig.version.v["files"].v[i].v["path"].v]
          \o (IF pconfig.version.v["use_bumpversion"] = B(TRUE)
                 /\ pconfig.version.v["bumpversion_config"] # Null
              THEN <<pconfig.version.v["bumpversion_config"].v>> ELSE <<>>)
          \o (IF pconfig.version.v["changelog"] # Null
              THEN <<pconfig.version.v["changelog"].v>> ELSE <<>>))
    \o SelectSeq([i \in DOMAIN ConfiguredTemplates |-> ConfiguredTemplates[i].v],
                 HasSeparator)

\* the referenced paths that are to be reported: no placeholder in the
\* configured string, and no such file under the project root
ExpectedMissing ==
    SelectSeq(ReferencedPaths, LAMBDA x : ~HasPlaceholder(x) /\ x \notin disk)

\* C13: validate_file_paths returns, in check order, exactly the configured
\* strings of the referenced files that do not exist under the root (a path
\* with the placeholder is not checked), and all_exist is True exactly when
\* that list is empty.
C13_MissingFilesInCheckOrder ==
    pc = "files_checked" =>
        /\ presult.missing_files = ExpectedMissing
        /\ presult.all_exist <=> (presult.missing_files = <<>>)

\* C14: a referenced path is exempt from the existence check if and only if
\* its configured string holds the placeholder: such a path is never
\* reported, and a path without it that does not exist is reported whatever
\* the project root is called.
C14_ExemptIffPlaceholder ==
    pc = "files_checked" =>
        \A x \in RangeOf(ReferencedPaths) :
            /\ HasPlaceholder(x) => x \notin RangeOf(presult.missing_files)
            /\ (~HasPlaceholder(x) /\ x \notin disk)
                  => x \in RangeOf(presult.missing_files)

\* the files every validate operation has to report
MissingReferenced == RangeOf(ExpectedMissing)

SchemaValid == validate_config([kind |-> "schema", config |-> pconfig]).is_valid

\* C15: when the configuration passes validate_config but refers to a file
\* that does not exist, the validate tool returns valid = false with the
\* missing paths in missing_files, and the verify script does not exit with
\* status 0.
C15_MissingFileFailsValidation ==
    (SchemaValid /\ MissingReferenced # {}) =>
        /\ pc = "tool_done" =>
              (~presult.valid /\ MissingReferenced \subseteq RangeOf(presult.missing_files))
        /\ pc = "verified" => presult.exit_status # 0

(***************************************************************************)
(* The writer of the user override file                                    *)
(***************************************************************************)
\* a Python object that yaml.dump has no representation for
Unrepresentable == [t |-> "u", v |-> "object"]

RECURSIVE HasUnrepresentable(_)
HasUnrepresentable(tree) ==
    \E k \in DOMAIN tree :
        \/ tree[k] = Unrepresentable
        \/ tree[k].t = "m" /\ HasUnrepresentable(tree[k].v)

\* yaml.dump(data, f): the document that a later yaml.safe_load parses
Dump(tree) == M(tree)

\* the file at path after open(path, 'w'): it exists and is empty
OpenForWriting(files, path) ==
    [q \in DOMAIN files \cup {path} |-> IF q = path THEN EmptyFile ELSE files[q]]

\* the file at path after the document has been written and the file closed
WriteDocument(files, path, document) ==
    [q \in DOMAIN files \cup {path} |-> IF q = path THEN document ELSE files[q]]

\* a writer that never reads the file it is about to replace
LoadExistingIgnored(files, user_config_path) == EmptyDict

\* existing = {}; if the file exists: try existing = load_yaml_file(...)
\* except Exception: pass
LoadExisting(files, user_config_path) ==
    IF Exists(files, user_config_path) /\ ~LoadRaises(files, user_config_path)
    THEN load_yaml_file(files, user_config_path)
    ELSE EmptyDict

\* an assignment that appends an incoming list to the list already stored
UserAssignAppend(h, existing, key, value) ==
    IF key \in DOMAIN h[existing] /\ h[existing][key].t = "l" /\ value.t = "l"
    THEN [h EXCEPT ![existing] = Put(@, key, L(h[existing][key].v \o value.v))]
    ELSE [h EXCEPT ![existing] = Put(@, key, value)]

\* the else branch of the loop of create_user_config: existing[key] = value
UserAssign(h, existing, key, value) == [h EXCEPT ![existing] = Put(@, key, value)]

RECURSIVE ApplyOverrides(_, _, _, _)
\* for key, value in overrides.items(): ...
ApplyOverrides(h, existing, overrides, ks) ==
    IF ks = {} THEN h
    ELSE LET key == CHOOSE x \in ks : TRUE
             value == h[overrides][key]
             h2 == IF /\ key \in DOMAIN h[existing]
                      /\ IsDict(h, h[existing][key])
                      /\ IsDict(h, value)
                   THEN _merge_dicts(h, h[existing][key].v, value.v)
                   ELSE UserAssign(h, existing, key, value)
         IN ApplyOverrides(h2, existing, overrides, ks \ {key})

\* how the operating system serves the write: "ok"; "denied", open(path, 'w')
\* raises; "nothing_written" and "cut", the write raises after open emptied
\* the file, before the first byte or in the middle of the document
WriteFailures == {"denied", "nothing_written", "cut"}

\* create_user_config(directory, overrides): overrides is the dictionary at
\* address overrides, the loaded dictionary is put at address existing; the
\* file is opened for writing (and so emptied) before yaml.dump runs, and
\* yaml.dump represents the whole dictionary before it writes the first byte
create_user_config(h, files, directory, existing, overrides, os) ==
    LET user_config_path == <<directory, USER_CONFIG_FILENAME>>
        h1 == AllocAt(existing, LoadExisting(files, user_config_path)) @@ h
        h2 == ApplyOverrides(h1, existing, overrides, DOMAIN h1[overrides])
        merged == Deref(h2, existing)
        opened == OpenForWriting(files, user_config_path)
    IN IF os = "denied" THEN [raised |-> TRUE, heap |-> h2, files |-> files]
       ELSE IF HasUnrepresentable(merged) \/ os = "nothing_written"
       THEN [raised |-> TRUE, heap |-> h2, files |-> opened]
       ELSE IF os = "cut"
       THEN [raised |-> TRUE, heap |-> h2,
             files |-> WriteDocument(opened, user_config_path, Invalid)]
       ELSE [raised |-> FALSE, heap |-> h2,
             files |-> WriteDocument(opened, user_config_path, Dump(merged))]

(***************************************************************************)
(* The writer as a state machine                                           *)
(***************************************************************************)
MaxCalls == 2       \* calls of create_user_config in one run

UserPath == <<root, USER_CONFIG_FILENAME>>

\* what the user file holds before the first call, Absent for no file
UserFileStates ==
    << Absent, Invalid, EmptyFile,
       M(("workflow_mode" :> S("team"))
            @@ ("branches" :> M(("feature" :> M(("pattern" :> S("^f/(.+)$"))))))) >>

\* overrides that yaml.dump can write
OverrideInputs == MergeInputs

\* overrides that hold an object yaml.dump cannot write
UnserializableInputs ==
    { ("main_branch" :> Unrepresentable),
      ("branches" :> M(("feature" :> M(("base" :> Unrepresentable))))) }

InitUser ==
    /\ root = 1
    /\ \E i \in 1..Len(UserFileStates) :
         \E name \in {USER_CONFIG_FILENAME, USER_CONFIG_FILENAME_ALT} :
            fs = IF UserFileStates[i].t = "absent" THEN EmptyDict
                 ELSE (<<1, name>> :> UserFileStates[i])
    /\ heap = EmptyDict
    /\ ufs0 = fs
    /\ uprev = fs
    /\ ucalls = <<>>
    /\ pc = "start"
    /\ heap0 = Unused /\ configs = Unused /\ result = Unused
    /\ found = Unused /\ loaded = Unused
    /\ DetectUnused /\ ValidateUnused /\ PathUnused /\ RaceUnused

\* the call number n with the overrides object number obj
Call(n, obj, h, os) ==
    LET r == create_user_config(h, fs, root, <<0 - n, <<>>>>, <<obj, <<>>>>, os)
    IN /\ heap' = r.heap
       /\ fs' = r.files
       /\ uprev' = fs
       /\ pc' = IF r.raised THEN "write_failed" ELSE "written"

\* a call with a new overrides object
CreateUserConfig ==
    /\ pc \in {"start", "written"}
    /\ Len(ucalls) < MaxCalls
    /\ \E o \in OverrideInputs :
         LET n == Len(ucalls) + 1
         IN /\ Call(n, n, AllocAt(<<n, <<>>>>, o) @@ heap, "ok")
            /\ ucalls' = Append(ucalls, [obj |-> n, value |-> o, again |-> FALSE])
    /\ UNCHANGED <<root, ufs0, heap0, configs, result, found, loaded,
                   detectVars, validateVars, pathVars, raceVars>>

\* the caller passes the overrides object of the last call once more
CreateUserConfigAgain ==
    /\ pc = "written"
    /\ Len(ucalls) < MaxCalls
    /\ LET n == Len(ucalls) + 1
           obj == ucalls[Len(ucalls)].obj
       IN /\ Call(n, obj, heap, "ok")
          /\ ucalls' = Append(ucalls, [obj |-> obj,
                                       value |-> Deref(heap, <<obj, <<>>>>),
                                       again |-> TRUE])
    /\ UNCHANGED <<root, ufs0, heap0, configs, result, found, loaded,
                   detectVars, validateVars, pathVars, raceVars>>

\* a call whose overrides hold an object that cannot be written
CreateUserConfigUnserializable ==
    /\ pc \in {"start", "written"}
    /\ Len(ucalls) < MaxCalls
    /\ \E o \in UnserializableInputs :
         LET n == Len(ucalls) + 1
         IN /\ Call(n, n, AllocAt(<<n, <<>>>>, o) @@ heap, "ok")
            /\ ucalls' = Append(ucalls, [obj |-> n, value |-> o, again |-> FALSE])
    /\ UNCHANGED <<root, ufs0, heap0, configs, result, found, loaded,
                   detectVars, validateVars, pathVars, raceVars>>

\* a call during which the operating system refuses or breaks off the write
CreateUserConfigWriteFails ==
    /\ pc \in {"start", "written"}
    /\ Len(ucalls) < MaxCalls
    /\ \E o \in OverrideInputs : \E os \in WriteFailures :
         LET n == Len(ucalls) + 1
         IN /\ Call(n, n, AllocAt(<<n, <<>>>>, o) @@ heap, os)
            /\ ucalls' = Append(ucalls, [obj |-> n, value |-> o, again |-> FALSE])
    /\ UNCHANGED <<root, ufs0, heap0, configs, result, found, loaded,
                   detectVars, validateVars, pathVars, raceVars>>

NextUser ==
    \/ CreateUserConfig
    \/ CreateUserConfigAgain
    \/ CreateUserConfigUnserializable
    \/ CreateUserConfigWriteFails

SpecUser == InitUser /\ [][NextUser]_vars

(***************************************************************************)
(* Properties of the writer                                                *)
(***************************************************************************)
UserFile == IF UserPath \in DOMAIN fs THEN fs[UserPath] ELSE Absent
CallValues == [i \in 1..Len(ucalls) |-> ucalls[i].value]

\* the keys of call i that no later call passes
KeptKeys(i) ==
    { k \in DOMAIN ucalls[i].value :
        \A j \in (i + 1)..Len(ucalls) : k \notin DOMAIN ucalls[j].value }

\* C16: starting with no user file, after any sequence of calls the file
\* holds the deep merge of the overrides in call order, and every key of a
\* call that no later call passes is still there with the value it had when
\* that call returned
C16_FileIsMergeOfCalls ==
    (pc = "written" /\ DOMAIN ufs0 = {})
        => /\ UserFile = M(MergeValues(CallValues))
           /\ \A i \in 1..Len(ucalls) : \A k \in KeptKeys(i) :
                /\ UserFile.t = "m"
                /\ k \in DOMAIN UserFile.v
                /\ UserFile.v[k] = MergeValues(SubSeq(CallValues, 1, i))[k]

\* two calls, the second overriding part of a mapping the first one wrote
C16_Witness ==
    /\ pc = "written" /\ DOMAIN ufs0 = {}
    /\ Len(ucalls) = 2
    /\ ucalls[1].value = ("main_branch" :> S("trunk"))
            @@ ("branches" :> M(("feature" :>
                    M(("base" :> S("main")) @@ ("target" :> L(<<"main", "develop">>))))))
    /\ ucalls[2].value = ("branches" :> M(("feature" :> M(("base" :> S("develop"))))))
    /\ UserFile = M(("main_branch" :> S("trunk"))
            @@ ("branches" :> M(("feature" :>
                    M(("base" :> S("develop")) @@ ("target" :> L(<<"main", "develop">>)))))))

\* C17: whatever the user file held, a second call with the same overrides
\* leaves the file as the first call left it
C17_SecondCallChangesNothing ==
    (pc = "written" /\ Len(ucalls) > 0 /\ ucalls[Len(ucalls)].again) => fs = uprev

\* the same overrides twice over a file that held other keys
C17_Witness ==
    /\ pc = "written" /\ Len(ucalls) = 2 /\ ucalls[2].again
    /\ UserPath \in DOMAIN ufs0 /\ ufs0[UserPath].t = "m"
    /\ ucalls[1].value = ("branches" :> M(("feature" :> M(("base" :> S("develop"))))))
    /\ fs = uprev
    /\ UserFile = M(("workflow_mode" :> S("team"))
            @@ ("branches" :> M(("feature" :>
                    M(("pattern" :> S("^f/(.+)$")) @@ ("base" :> S("develop")))))))

\* C18: a call that fails while writing leaves the file as it was
C18_FailedWriteKeepsFile ==
    pc = "write_failed" => fs = uprev

\* the file held a configuration, the call failed, and the file is empty
C18_FileLost ==
    /\ pc = "write_failed"
    /\ UserPath \in DOMAIN uprev /\ uprev[UserPath].t = "m"
    /\ UserFile = EmptyFile

(***************************************************************************)
(* Properties of load_config with an explicit path                         *)
(***************************************************************************)
ExplicitCall == pc = "config_loaded" /\ loaded.config_path # <<>>

\* C19: with an explicit path that is not on disk load_config raises the
\* not-found error, whatever files discovery would find; with one that is on
\* disk a returned ProjectConfig has is_default false and that path
C19_ExplicitPathNeverDefaults ==
    ExplicitCall =>
        LET p == loaded.config_path[1]
            r == loaded.result
        IN IF ~Exists(fs, p)
           THEN r.raised /\ r.error = "FileNotFoundError"
           ELSE ~r.raised => (r.is_default = FALSE /\ r.path = <<p>>)

\* the explicit path is missing while discovery would find a file that loads
C19_Witness ==
    /\ ExplicitCall
    /\ loaded.config_path = <<<<root, CONFIG_FILENAME>>>>
    /\ ~Exists(fs, <<root, CONFIG_FILENAME>>)
    /\ Exists(fs, <<root, CONFIG_FILENAME_ALT>>)
    /\ ~LoadRaises(fs, <<root, CONFIG_FILENAME_ALT>>)
    /\ ~load_hierarchical_config(fs, dir, root).raised
    /\ loaded.result.raised /\ loaded.result.error = "FileNotFoundError"

(***************************************************************************)
(* The default configuration as Python objects                             *)
(***************************************************************************)
\* the key under which a list object keeps its item number i
ItemKeys == <<"[1]", "[2]", "[3]">>

\* the list displays of the defaults whose items are dict displays
ItemsAreDicts(a) == a[2] # <<>> /\ a[2][Len(a[2])] = "files"

\* is the item at key k of the object at address a itself an object
IsDisplay(a, kind, k, item) ==
    IF kind = "l" THEN ItemsAreDicts(a) ELSE item.t \in {"m", "l"}

\* the items of a display by key: a list display by ItemKeys
ItemsOf(x) ==
    IF x.t = "l" THEN [k \in {ItemKeys[i] : i \in 1..Len(x.v)} |->
                          x.v[CHOOSE i \in 1..Len(x.v) : ItemKeys[i] = k]]
    ELSE x.v

RECURSIVE LiteralAt(_, _), LiteralItems(_, _, _, _)
\* the objects that evaluating the display x builds, the outermost at a
LiteralAt(a, x) ==
    (a :> [kind |-> x.t,
           items |-> [k \in DOMAIN ItemsOf(x) |->
                        IF IsDisplay(a, x.t, k, ItemsOf(x)[k]) THEN R(ChildAddr(a, k))
                        ELSE ItemsOf(x)[k]]])
        @@ LiteralItems(a, x.t, ItemsOf(x), DOMAIN ItemsOf(x))

LiteralItems(a, kind, items, ks) ==
    IF ks = {} THEN EmptyDict
    ELSE LET k == CHOOSE j \in ks : TRUE
         IN (IF IsDisplay(a, kind, k, items[k]) THEN LiteralAt(ChildAddr(a, k), items[k])
             ELSE EmptyDict)
                @@ LiteralItems(a, kind, items, ks \ {k})

RECURSIVE ValueAt(_, _)
\* the value of the object at address a
ValueAt(h, a) ==
    LET o == h[a]
        isRef(k) == IF o.kind = "l" /\ ~ItemsAreDicts(a) THEN FALSE
                    ELSE o.items[k].t = "r"
        item(k) == IF isRef(k) THEN ValueAt(h, o.items[k].v) ELSE o.items[k]
    IN IF o.kind = "l"
       THEN L([i \in 1..Cardinality(DOMAIN o.items) |-> item(ItemKeys[i])])
       ELSE M([k \in DOMAIN o.items |-> item(k)])

\* a module that builds the defaults once and hands out the same objects
SharedObjects(n) == 0

\* every call evaluates the displays anew: the objects of call number n
FreshObjects(n) == n

\* get_default_config(project_type), call number n: the heap afterwards;
\* the returned dictionary is at <<FreshObjects(n), <<>>>>
DefaultConfigObjects(h, n, project_type) ==
    h @@ LiteralAt(<<FreshObjects(n), <<>>>>, M(get_default_config(project_type)))

\* the caller changes an object: a new key in a dict, a new item in a list
Mutate(h, a) ==
    LET o == h[a]
    IN IF o.kind = "l"
       THEN [h EXCEPT ![a].items =
                Put(@, ItemKeys[Cardinality(DOMAIN o.items) + 1],
                    IF ItemsAreDicts(a) THEN S("changed") ELSE "changed")]
       ELSE [h EXCEPT ![a].items = Put(@, "pattern", S("changed"))]

(***************************************************************************)
(* Callers of get_default_config as a state machine                        *)
(***************************************************************************)
\* the objects of a result that a caller changes
MutationTargets ==
    { <<>>, <<"branches", "feature">>, <<"branches", "hotfix", "target">>,
      <<"version">>, <<"version", "files">>, <<"version", "files", "[1]">> }

InitDefaults ==
    /\ heap = EmptyDict
    /\ configs = <<>>
    /\ pc = "start"
    /\ heap0 = Unused /\ result = Unused
    /\ DetectUnused /\ ValidateUnused /\ HierUnused /\ PathUnused /\ UserUnused /\ RaceUnused

\* config = get_default_config(project_type)
GetDefaultConfig ==
    /\ Len(configs) < MaxCalls
    /\ \E project_type \in ProjectTypeValues :
         LET n == Len(configs) + 1
             h == DefaultConfigObjects(heap, n, project_type)
             a == <<FreshObjects(n), <<>>>>
         IN /\ heap' = h
            /\ configs' = Append(configs, [project_type |-> project_type, addr |-> a,
                                           value |-> ValueAt(h, a).v,
                                           changed |-> FALSE])
    /\ pc' = "returned"
    /\ UNCHANGED <<heap0, result, detectVars, validateVars, hierVars, pathVars, userVars, raceVars>>

\* the caller changes the configuration it was given last
MutateResult ==
    /\ pc = "returned"
    /\ \E path \in MutationTargets :
         LET n == Len(configs)
         IN /\ heap' = Mutate(heap, <<configs[n].addr[1], path>>)
            /\ configs' = [configs EXCEPT ![n].changed = TRUE]
    /\ pc' = "changed"
    /\ UNCHANGED <<heap0, result, detectVars, validateVars, hierVars, pathVars, userVars, raceVars>>

NextDefaults == GetDefaultConfig \/ MutateResult

SpecDefaults == InitDefaults /\ [][NextDefaults]_vars

(***************************************************************************)
(* Properties of get_default_config                                        *)
(***************************************************************************)
VersionPathsOf(version) ==
    [i \in 1..Len(version.files.v) |-> version.files.v[i].v.path.v]

ExpectedVersion(project_type, version) ==
    IF project_type = "python"
    THEN /\ version.use_bumpversion = B(TRUE)
         /\ VersionPathsOf(version) = <<"src/__project__/__init__.py", "pyproject.toml">>
    ELSE IF project_type \in {"javascript", "typescript"}
    THEN /\ version.use_bumpversion = B(FALSE)
         /\ VersionPathsOf(version) = <<"package.json">>
    ELSE IF project_type = "java" THEN VersionPathsOf(version) = <<"pom.xml">>
    ELSE VersionPathsOf(version) = <<"VERSION">>

\* C20: what get_default_config returned has the fixed workflow fields, the
\* five branch types and the version block of its type, and equals what
\* every other call for the same type returned, whatever callers did to
\* earlier results in between
C20_DefaultsByTypeAndFresh ==
    \A i \in 1..Len(configs) :
        LET c == configs[i].value
            t == configs[i].project_type
        IN /\ c.project_type = S(t)
           /\ c.branching_strategy = S("gitflow")
           /\ c.main_branch = S("main")
           /\ c.develop_branch = S("develop")
           /\ c.workflow_mode = S("solo")
           /\ DOMAIN c.branches.v = {"feature", "bugfix", "hotfix", "release", "docs"}
           /\ ExpectedVersion(t, c.version.v)
           /\ \A j \in 1..Len(configs) :
                configs[j].project_type = t => configs[j].value = c

\* python defaults handed out twice, the first result changed in between
C20_Witness ==
    /\ Len(configs) = 2
    /\ configs[1].project_type = "python" /\ configs[2].project_type = "python"
    /\ configs[1].changed
    /\ ValueAt(heap, configs[1].addr).v # configs[1].value
    /\ ValueAt(heap, configs[2].addr).v = configs[1].value

(***************************************************************************)
(* Saving a configuration (config/loader.py)                               *)
(***************************************************************************)
\* a member of an Enum class, as model_dump() leaves it in the dictionary
EnumObject(x) == [t |-> "e", v |-> x.v]

\* exclude_none = True: the keys whose value is None are left out
ExcludeNone(f) == [k \in {j \in DOMAIN f : f[j].t # "n"} |-> f[k]]

\* the dictionary of one BranchConfig
DumpBranch(b) ==
    M(ExcludeNone([pattern |-> b.pattern, base |-> b.base, target |-> b.target,
                   version_bump |-> IF b.version_bump.t = "s"
                                    THEN EnumObject(b.version_bump)
                                    ELSE b.version_bump]))

\* config.model_dump(exclude_none=True) of a ConfigurationSchema
model_dump(config) ==
    ExcludeNone(
        [project_type |-> EnumObject(config.project_type),
         branching_strategy |-> EnumObject(config.branching_strategy),
         workflow_mode |-> EnumObject(config.workflow_mode),
         main_branch |-> config.main_branch,
         develop_branch |-> config.develop_branch,
         branches |-> M([b \in DOMAIN config.branches |-> DumpBranch(config.branches[b])]),
         version |-> IF config.version.t = "m" THEN M(ExcludeNone(config.version.v))
                     ELSE config.version,
         pull_requests |-> config.pull_requests,
         jira |-> config.jira,
         github |-> config.github])

RECURSIVE HasEnumObject(_)
HasEnumObject(tree) ==
    \E k \in DOMAIN tree :
        \/ tree[k].t = "e"
        \/ tree[k].t = "m" /\ HasEnumObject(tree[k].v)

\* yaml.dump(data, f) of save_yaml_file, as yaml.safe_load reads it back: the
\* enum representer is registered for the class enum.Enum itself, so a member
\* of a subclass is written with a python/object tag, which safe_load refuses
SavedDocument(data) == IF HasEnumObject(data) THEN Invalid ELSE M(data)

\* save_config(config, directory=directory)
save_config(files, input, directory) ==
    IF input.kind = "dict" /\ ~SchemaAccepts(input.config)
    THEN [raised |-> TRUE, files |-> files]
    ELSE LET config_dict == IF input.kind = "schema" THEN model_dump(input.config)
                            ELSE input.config
             path == <<directory, CONFIG_FILENAME>>
         IN [raised |-> FALSE,
             files |-> WriteDocument(OpenForWriting(files, path), path,
                                     SavedDocument(config_dict))]

(***************************************************************************)
(* Save, then load, as a state machine                                     *)
(***************************************************************************)
\* the branch types bs with their default pattern, all based on base
SaveBranches(bs, base) ==
    [b \in bs |-> M([pattern |-> DefaultBranches[b].v["pattern"], base |-> S(base)])]

\* the configurations a caller saves
SaveInputs ==
    { Mapping([project_type |-> pt, branching_strategy |-> S(s),
               main_branch |-> S("main"), develop_branch |-> d,
               branches |-> M(SaveBranches(bs, base))]) :
        pt \in {Absent, S("python"), S("javascript")},
        s \in BranchingStrategyValues,
        d \in {Absent, S("develop"), Null},
        bs \in SUBSET {"feature", "bugfix", "hotfix", "release", "docs"},
        base \in {"main", "develop"} }

InitSave ==
    /\ vinput \in { [kind |-> "dict", config |-> c] : c \in SaveInputs }
                  \cup { [kind |-> "schema", config |-> ConfigurationSchema(c)] :
                            c \in {x \in SaveInputs : SchemaAccepts(x)} }
    /\ vresult = Unused
    /\ root = 1
    /\ fs = EmptyDict
    /\ dir \in ProjectDirs
    /\ detected = Unused
    /\ found = Unused
    /\ loaded = "none"
    /\ pc = "start"
    /\ MergeUnused /\ PathUnused /\ UserUnused /\ RaceUnused

\* save_config(vinput, directory=root)
SaveConfig ==
    /\ pc = "start"
    /\ LET r == save_config(fs, vinput, root)
       IN /\ fs' = r.files
          /\ pc' = IF r.raised THEN "save_failed" ELSE "saved"
    /\ UNCHANGED <<root, found, loaded, mergeVars, detectVars, validateVars, pathVars,
                   userVars, raceVars>>

\* loaded = load_config(root)
LoadSaved ==
    /\ pc = "saved"
    /\ loaded' = load_config(fs, dir, root, <<>>, TRUE, TRUE)
    /\ pc' = "reloaded"
    /\ UNCHANGED <<fs, root, found, mergeVars, detectVars, validateVars, pathVars,
                   userVars, raceVars>>

NextSave == SaveConfig \/ LoadSaved

SpecSave == InitSave /\ [][NextSave]_vars

\* the ConfigurationSchema of what was saved
SavedConfig ==
    IF vinput.kind = "dict" THEN ConfigurationSchema(vinput.config) ELSE vinput.config

\* C21: after save_config(c, directory=d) in a directory with no other
\* configuration file, load_config(d) returns the fields of c
C21_SaveLoadRoundTrip ==
    (pc = "reloaded" /\ validate_config(vinput).is_valid)
        => ~loaded.raised /\ loaded.config = SavedConfig

(***************************************************************************)
(* The provenance flag of the hierarchical loader                          *)
(***************************************************************************)
\* the configurations of the files that were loaded and merged
MergedFiles == LoadEach(fs, find_hierarchical_configs(fs, root))

\* C22: is_default is true exactly when no file was loaded and merged into
\* the returned configuration; with no configuration file at all the loader
\* returns the default configuration of the detected type with is_default
C22_IsDefaultIffDefaultsAlone ==
    (pc = "loaded" /\ ~loaded.raised) =>
        /\ loaded.is_default <=> (Len(MergedFiles) = 0)
        /\ DOMAIN fs = {} =>
             /\ loaded.is_default
             /\ loaded.config =
                    ConfigurationSchema(get_default_config(detect_project_type(dir).type))

(***************************************************************************)
(* The reach of the team-tier walk                                         *)
(***************************************************************************)
\* the team entries of found for the directory at level l
TeamEntriesAt(l) ==
    {i \in 1..Len(found) : found[i].level = "team" /\ found[i].path[1] = l}

\* C23: every ancestor of the project root, the filesystem root included,
\* has exactly one team entry when it holds a configuration file and none
\* when it does not
C23_TeamWalkReachesRoot ==
    pc = "found" =>
        \A l \in 0..(root - 1) :
            Cardinality(TeamEntriesAt(l)) =
                Len(FileIn(l, CONFIG_FILENAME, CONFIG_FILENAME_ALT))

(***************************************************************************)
(* Completeness and order of the error list                                *)
(***************************************************************************)
\* the fields the checks read, for a mapping as for a ConfigurationSchema
InputConfig ==
    IF vinput.kind = "dict" THEN ConfigurationSchema(vinput.config) ELSE vinput.config

\* one entry per violated invariant, in the order of the checks: required
\* branch types, branch regexes, bases, targets, version, Jira, GitHub
ViolationsInOrder == SchemaErrors(InputConfig)

\* C24: the error list holds every violated invariant once, in check order,
\* for a mapping as for a ConfigurationSchema, also when the mapping has a
\* structural violation
C24_EveryViolationOnceInOrder ==
    pc = "validated" =>
        /\ vresult.errors = ViolationsInOrder
        /\ \A i, j \in 1..Len(vresult.errors) :
             i # j => vresult.errors[i] # vresult.errors[j]

(***************************************************************************)
(* Concurrent calls of create_user_config                                  *)
(***************************************************************************)
\* the first half of create_user_config: what it loads from the user file
ReadExisting(files, directory) ==
    LoadExisting(files, <<directory, USER_CONFIG_FILENAME>>)

\* a writer that loads the user file again at the moment it writes
BaseReloaded(files, directory, existing) == ReadExisting(files, directory)

\* the dictionary the overrides are merged into: the one loaded earlier
BaseAsRead(files, directory, existing) == existing

\* the second half of create_user_config: merge the overrides into what was
\* loaded and write the result to the user file
WriteBack(files, directory, existing, overrides) ==
    LET user_config_path == <<directory, USER_CONFIG_FILENAME>>
        ea == <<1, <<>>>>
        oa == <<2, <<>>>>
        h == AllocAt(ea, BaseAsRead(files, directory, existing)) @@ AllocAt(oa, overrides)
        merged == Deref(ApplyOverrides(h, ea, oa, DOMAIN overrides), ea)
    IN WriteDocument(OpenForWriting(files, user_config_path), user_config_path,
                     Dump(merged))

Procs == {1, 2}

\* the overrides of the two calls: not empty, and with different keys
RaceOverrides ==
    { o \in [Procs -> MergeInputs \ {EmptyDict}] : DOMAIN o[1] \cap DOMAIN o[2] = {} }

InitRace ==
    /\ root = 1
    /\ \E i \in 1..Len(UserFileStates) :
         fs = IF UserFileStates[i].t = "absent" THEN EmptyDict
              ELSE (<<1, USER_CONFIG_FILENAME>> :> UserFileStates[i])
    /\ \E o \in RaceOverrides :
         rlocal = [p \in Procs |-> [at |-> "start", overrides |-> o[p],
                                    existing |-> EmptyDict]]
    /\ rsteps = <<>>
    /\ pc = "running"
    /\ found = Unused /\ loaded = Unused
    /\ MergeUnused /\ DetectUnused /\ ValidateUnused /\ PathUnused /\ UserUnused

\* call p loads the user file
ReadUserFile(p) ==
    /\ rlocal[p].at = "start"
    /\ rlocal' = [rlocal EXCEPT ![p].at = "read",
                                ![p].existing = ReadExisting(fs, root)]
    /\ rsteps' = Append(rsteps, <<p, "read">>)
    /\ UNCHANGED <<pc, fs, root, found, loaded, mergeVars, detectVars, validateVars,
                   pathVars, userVars>>

\* call p merges and writes
WriteUserFile(p) ==
    /\ rlocal[p].at = "read"
    /\ fs' = WriteBack(fs, root, rlocal[p].existing, rlocal[p].overrides)
    /\ rlocal' = [rlocal EXCEPT ![p].at = "done"]
    /\ rsteps' = Append(rsteps, <<p, "write">>)
    /\ pc' = IF \A q \in Procs \ {p} : rlocal[q].at = "done" THEN "done" ELSE pc
    /\ UNCHANGED <<root, found, loaded, mergeVars, detectVars, validateVars,
                   pathVars, userVars>>

NextRace == \E p \in Procs : ReadUserFile(p) \/ WriteUserFile(p)

SpecRace == InitRace /\ [][NextRace]_vars

\* the user file holds the overrides of call p
Absorbed(p) ==
    /\ UserFile.t = "m"
    /\ MergeValues(<<UserFile.v, rlocal[p].overrides>>) = UserFile.v

BothReadFirst == rsteps[1][2] = "read" /\ rsteps[2][2] = "read"
Serialized == rsteps[1][2] = "read" /\ rsteps[2][2] = "write"

\* C25: when both calls read before either writes, the final file lacks the
\* overrides of one call; when one call runs after the other, the final file
\* holds the overrides of both
C25_LastWriterWins ==
    pc = "done" =>
        /\ BothReadFirst => \E p \in Procs : ~Absorbed(p)
        /\ Serialized => \A p \in Procs : Absorbed(p)

\* both calls read, call 1 wrote, call 2 wrote: the overrides of call 1 are gone
C25_Witness ==
    /\ pc = "done"
    /\ rsteps = << <<1, "read">>, <<2, "read">>, <<1, "write">>, <<2, "write">> >>
    /\ ~Absorbed(1)
    /\ Absorbed(2)

(***************************************************************************)
(* The writer and the locator of the user file                             *)
(***************************************************************************)
\* the content of the user file the locator selects among files, {} when it
\* selects none or one that does not load
EffectiveUserOverrides(files) ==
    LET user == FindUserConfig(files, root)
    IN IF user = <<>> THEN EmptyDict
       ELSE IF LoadRaises(files, user[1].path) THEN EmptyDict
       ELSE load_yaml_file(files, user[1].path)

\* C26: after a call the user file that the locator selects holds the user
\* overrides that were in effect before the call merged with the new ones
C26_WriterUsesLocatedFile ==
    pc = "written" =>
        /\ FindUserConfig(fs, root) # <<>>
        /\ EffectiveUserOverrides(fs) =
              MergeValues(<<EffectiveUserOverrides(uprev), ucalls[Len(ucalls)].value>>)

(***************************************************************************)
(* Creating the default configuration file (config/loader.py)              *)
(***************************************************************************)
\* the value of the local variable project_type: the ProjectType member the
\* caller passed, or, for None, what detect_project_type returned, which is
\* the tuple (detected_type, confidence, scores)
ProjectTypeArgument(d, project_type) ==
    IF project_type = <<>>
    THEN [is_member |-> FALSE, detected |-> detect_project_type(d)]
    ELSE [is_member |-> TRUE, value |-> project_type[1]]

\* create_default_config(directory, project_type, overwrite); project_type
\* is a sequence of no member (None) or one
create_default_config(files, d, directory, project_type, overwrite) ==
    LET config_path == <<directory, CONFIG_FILENAME>>
        argument == ProjectTypeArgument(d, project_type)
    IN IF Exists(files, config_path) /\ ~overwrite
       THEN [raised |-> TRUE, error |-> "FileExistsError", files |-> files]
       ELSE IF ~argument.is_member        \* get_default_config: project_type.value
       THEN [raised |-> TRUE, error |-> "AttributeError", files |-> files]
       ELSE LET saved == save_config(files,
                                     [kind |-> "dict",
                                      config |-> get_default_config(argument.value)],
                                     directory)
            IN [raised |-> saved.raised, error |-> "ValueError", files |-> saved.files]

InitCreate ==
    /\ root = 1
    /\ \E i \in 0..Len(ProjectContents) :
         fs = IF i = 0 THEN EmptyDict
              ELSE (<<1, CONFIG_FILENAME>> :> ProjectContents[i])
    /\ dir \in ProjectDirs
    /\ detected = Unused
    /\ found = Unused
    /\ loaded = "none"
    /\ pc = "start"
    /\ MergeUnused /\ ValidateUnused /\ PathUnused /\ UserUnused /\ RaceUnused

\* create_default_config(root, project_type, overwrite)
CreateDefaultConfig ==
    /\ pc = "start"
    /\ \E project_type \in {<<>>} \cup {<<t>> : t \in ProjectTypeValues} :
         \E overwrite \in BOOLEAN :
            LET r == create_default_config(fs, dir, root, project_type, overwrite)
            IN /\ fs' = r.files
               /\ loaded' = [project_type |-> project_type, overwrite |-> overwrite,
                             before |-> fs, raised |-> r.raised, error |-> r.error]
    /\ pc' = "created"
    /\ UNCHANGED <<root, found, mergeVars, detectVars, validateVars, pathVars, userVars,
                   raceVars>>

SpecCreate == InitCreate /\ [][CreateDefaultConfig]_vars

ProjectPath == <<root, CONFIG_FILENAME>>

\* C27: without a project type and without a .practices.yaml the call writes
\* a file whose project_type is the detected type; with a .practices.yaml and
\* overwrite = false it raises FileExistsError and leaves the file as it was
C27_CreateDefaultDetectsType ==
    pc = "created" =>
        /\ (loaded.project_type = <<>> /\ ~Exists(loaded.before, ProjectPath))
             => /\ ~loaded.raised
                /\ Exists(fs, ProjectPath)
                /\ ~LoadRaises(fs, ProjectPath)
                /\ load_yaml_file(fs, ProjectPath)["project_type"]
                      = S(detect_project_type(dir).type)
        /\ (Exists(loaded.before, ProjectPath) /\ ~loaded.overwrite)
             => /\ loaded.raised /\ loaded.error = "FileExistsError"
                /\ fs = loaded.before

(***************************************************************************)
(* Overrides merged into the user file, against overrides as a layer       *)
(***************************************************************************)
\* what load_hierarchical_config resolves from the lower tiers d and the
\* user file create_user_config wrote from the existing file u and the
\* overrides o
ResolvedAfterCreate(d, u, o) == MergeValues(<<d, MergeValues(<<u, o>>)>>)

\* C28: for all mappings d, u and o, merge_configs([d, merge_configs([u, o])])
\* is value-equal to merge_configs([d, u, o]), also when a key holds a mapping
\* in some of them and a non-mapping in others.
C28_PreMergeEqualsLayering ==
    (pc = "merged" /\ Len(configs) = 3)
        => ResolvedAfterCreate(InputBefore(1), InputBefore(2), InputBefore(3))
              = MergeValues(<<InputBefore(1), InputBefore(2), InputBefore(3)>>)

(***************************************************************************)
(* The defaults under the schema and the validator                         *)
(***************************************************************************)
\* validate_config on the i-th configuration get_default_config returned
DefaultValidated(i) == validate_config([kind |-> "dict", config |-> configs[i].value])

\* C29: for every project type the configuration get_default_config returns
\* is accepted by the schema, and validate_config answers (True, []) on it.
C29_DefaultsAreValid ==
    \A i \in 1..Len(configs) :
        /\ SchemaAccepts(configs[i].value)
        /\ DefaultValidated(i) = [raised |-> FALSE, is_valid |-> TRUE, errors |-> <<>>]

\* the defaults of two types with different version blocks were returned and
\* validated
C29_Witness ==
    /\ Len(configs) = 2
    /\ configs[1].project_type = "java" /\ configs[2].project_type = "rust"
    /\ ~configs[1].changed /\ ~configs[2].changed
    /\ DefaultValidated(1).is_valid /\ DefaultValidated(2).is_valid

(***************************************************************************)
(* Strategy templates (config/templates.py, tools/config_tools.py)         *)
(***************************************************************************)
MainBranches(bs) ==
    [b \in bs |->
        IF b = "release"
        THEN BranchCfg("^release/(\\d+\\.\\d+\\.\\d+(?:-[a-zA-Z0-9.]+)?)$", "main",
                       Absent, S("minor"))
        ELSE BranchCfg(DefaultBranches[b].v["pattern"].v, "main", Absent,
                       DefaultBranches[b].v["version_bump"])]

\* the literal of BRANCHING_STRATEGY_TEMPLATES
BRANCHING_STRATEGY_TEMPLATES ==
    [s \in BranchingStrategyValues |->
        IF s = "gitflow"
        THEN [branching_strategy |-> S("gitflow"),
              main_branch |-> S("main"),
              develop_branch |-> S("develop"),
              branches |-> M(DefaultBranches)]
        ELSE IF s = "github-flow"
        THEN [branching_strategy |-> S("github-flow"),
              main_branch |-> S("main"),
              branches |-> M(MainBranches({"feature", "bugfix", "hotfix", "docs"}))]
        ELSE [branching_strategy |-> S("trunk"),
              main_branch |-> S("main"),
              branches |-> M(MainBranches({"feature", "bugfix", "release"}))]]

\* the dictionary object BRANCHING_STRATEGY_TEMPLATES[strategy]
TemplateObject(strategy) ==
    IF strategy = "gitflow" THEN 1 ELSE IF strategy = "github-flow" THEN 2 ELSE 3

\* the objects of the module-level templates, as the import creates them
TemplateHeap ==
    AllocAt(<<1, <<>>>>, BRANCHING_STRATEGY_TEMPLATES["gitflow"])
        @@ AllocAt(<<2, <<>>>>, BRANCHING_STRATEGY_TEMPLATES["github-flow"])
        @@ AllocAt(<<3, <<>>>>, BRANCHING_STRATEGY_TEMPLATES["trunk"])

\* get_template_for_branching_strategy(strategy): the object itself
get_template_for_branching_strategy(strategy) == <<TemplateObject(strategy), <<>>>>

\* the address config_dict is bound to, and the one customize is bound to
ConfigDictAddr == <<4, <<>>>>
CustomizeAddr == <<5, <<>>>>

\* for branch_type, branch_config in value.items():
\*     config_dict["branches"][branch_type] = branch_config
\* the dictionary object config_dict["branches"] after the loop
AssignBranches(branches, value) ==
    [branch_type \in DOMAIN branches \cup DOMAIN value |->
        IF branch_type \in DOMAIN value THEN value[branch_type] ELSE branches[branch_type]]

\* for key, value in strategy_template.items(): ... ; model_dump always gives
\* config_dict a "branches" dictionary
ApplyTemplateItems(h, template) ==
    LET branches == h[ConfigDictAddr]["branches"].v
    IN [h EXCEPT
          ![ConfigDictAddr] =
             [key \in DOMAIN @ \cup DOMAIN h[template] |->
                 IF key \in DOMAIN h[template] /\ key # "branches"
                 THEN h[template][key] ELSE @[key]],
          ![branches] =
             IF "branches" \in DOMAIN h[template]
             THEN AssignBranches(@, h[h[template]["branches"].v]) ELSE @]

\* config_dict = project_config.config.model_dump(exclude_none=True), then
\* the template applied to it
TemplateApplied(h, project_config, strategy) ==
    ApplyTemplateItems(AllocAt(ConfigDictAddr, model_dump(project_config.config)) @@ h,
                       get_template_for_branching_strategy(strategy))

\* if customize: _merge_dicts(config_dict, customize)
Customized(h, customize) ==
    IF customize # <<>> /\ customize[1] # EmptyDict
    THEN _merge_dicts(AllocAt(CustomizeAddr, customize[1]) @@ h, ConfigDictAddr,
                      CustomizeAddr)
    ELSE h

RECURSIVE EnumValues(_)
\* the fields as pydantic reads them: an enum member stands for its value
EnumValues(tree) ==
    [k \in DOMAIN tree |->
        IF tree[k].t = "e" THEN S(tree[k].v)
        ELSE IF tree[k].t = "m" THEN M(EnumValues(tree[k].v))
        ELSE tree[k]]

\* the objects of the templates alone: what outlives a call
TemplatesOf(h) == [a \in {x \in DOMAIN h : x[1] \in 1..3} |-> h[a]]

\* updated_config = ConfigurationSchema(**config_dict), saved on request and
\* returned; fields is config_dict as pydantic reads it
UpdatedConfig(h, files, directory, fields, save) ==
    IF ~SchemaAccepts(fields)
    THEN [success |-> FALSE, heap |-> TemplatesOf(h), files |-> files,
          config |-> EmptyDict]
    ELSE [success |-> TRUE,
          heap |-> TemplatesOf(h),
          files |-> IF save
                    THEN save_config(files,
                                     [kind |-> "schema",
                                      config |-> ConfigurationSchema(fields)],
                                     directory).files
                    ELSE files,
          config |-> model_dump(ConfigurationSchema(fields))]

(***************************************************************************)
(* Callers of apply_strategy_template as a state machine                   *)
(***************************************************************************)
MaxApplies == 2     \* calls of apply_strategy_template in one run

\* customize: None, a top-level field, a field of a templated branch type, a
\* branch type no template has
CustomizeInputs ==
    { <<>>,
      <<("workflow_mode" :> S("team"))>>,
      <<("branches" :> M(("feature" :> M(("base" :> S("trunk"))))))>>,
      <<("branches" :> M(("custom" :> M([pattern |-> S("^custom/(.+)$"),
                                         base |-> S("main")]))))>> }

InitTemplates ==
    /\ heap = TemplateHeap
    /\ heap0 = TemplateHeap
    /\ configs = <<>>
    /\ result = Unused
    /\ root = 1
    /\ \E i \in 0..Len(ProjectContents) :
         fs = IF i = 0 THEN EmptyDict
              ELSE (<<1, CONFIG_FILENAME>> :> ProjectContents[i])
    /\ dir \in ProjectDirs
    /\ detected = Unused
    /\ found = Unused
    /\ loaded = Unused
    /\ pc = "start"
    /\ ValidateUnused /\ PathUnused /\ UserUnused /\ RaceUnused

\* apply_strategy_template(strategy, customize, save); customize is a
\* sequence of no mapping (None) or one; the project configuration is loaded
\* from the project root, and an exception ends the call with success False
ApplyStrategyTemplate ==
    /\ Len(configs) < MaxApplies
    /\ \E strategy \in BranchingStrategyValues : \E customize \in CustomizeInputs :
         \E save \in BOOLEAN :
         \E project_config \in {load_config(fs, dir, root, <<>>, TRUE, TRUE)} :
            IF project_config.raised
            THEN /\ configs' = Append(configs, [strategy |-> strategy,
                                                customize |-> customize,
                                                success |-> FALSE,
                                                config |-> EmptyDict])
                 /\ UNCHANGED <<heap, fs>>
            ELSE \E h2 \in {TemplateApplied(heap, project_config, strategy)} :
                 \E h3 \in {Customized(h2, customize)} :
                 \E fields \in {EnumValues(Deref(h3, ConfigDictAddr))} :
                 \E r \in {UpdatedConfig(h3, fs, root, fields, save)} :
                    /\ heap' = r.heap
                    /\ fs' = r.files
                    /\ configs' = Append(configs, [strategy |-> strategy,
                                                   customize |-> customize,
                                                   success |-> r.success,
                                                   config |-> r.config])
    /\ pc' = "applied"
    /\ UNCHANGED <<heap0, result, root, found, loaded, detectVars, validateVars, pathVars,
                   userVars, raceVars>>

NextTemplates == ApplyStrategyTemplate

SpecTemplates == InitTemplates /\ [][NextTemplates]_vars

\* the content of BRANCHING_STRATEGY_TEMPLATES in heap h
TemplatesValue(h) ==
    [s \in BranchingStrategyValues |-> Deref(h, get_template_for_branching_strategy(s))]

\* C30: after any sequence of apply_strategy_template calls, with or without
\* customize, BRANCHING_STRATEGY_TEMPLATES is value-equal to its initial
\* content.
C30_TemplatesNeverModified ==
    TemplatesValue(heap) = BRANCHING_STRATEGY_TEMPLATES

====
